---------------------------- MODULE Spec2Model ----------------------------
(***************************************************************************)
(* The Order aggregate of clean-architecture/src/domain and the value      *)
(* objects it is built from (Money, Currency, Sku, Quantity, OrderItem),   *)
(* with the domain events the aggregate records.                           *)
(*                                                                         *)
(* Strings the code normalises (SKU and currency codes) are sequences of   *)
(* one-character strings.  A thrown Error is a result record with ok =     *)
(* FALSE and the kind of the error in err.                                 *)
(***************************************************************************)
EXTENDS Integers, Sequences, FiniteSets, TLC

(***************************************************************************)
(* Bounds of the model (not program constants).                            *)
(***************************************************************************)
\* addItem calls with freely chosen arguments that may push an item
MaxFreeAdds == 2
\* OrderTotalCalculated events allowed to be pending at the same time
MaxTotalEvents == 1

(***************************************************************************)
(* JavaScript numbers (IEEE-754 doubles), as far as Money uses them.       *)
(*                                                                         *)
(* A number is inf (Infinity) or hi * 2^1010 + lo / 100: lo counts whole   *)
(* cents, hi counts units of 2^1010.  Doubles are exact on whole cents far *)
(* beyond the amounts used here, and exact on the multiples k * 2^1010 for *)
(* k <= 2^14 - 1, the largest one below Number.MAX_VALUE; the next         *)
(* multiple overflows to Infinity.  The spacing of doubles near 2^1010 is  *)
(* 2^958, so adding cents to such a number returns it unchanged.           *)
(*                                                                         *)
(* half adds half a cent to lo, for amounts such as 0.125 that lie exactly *)
(* between two cent values.  Of the values that are not finite, Infinity   *)
(* is the one Money can hold; -Infinity and NaN are told apart by hi and   *)
(* lo (hi = -1 for -Infinity, lo = 1 for NaN).                             *)
(***************************************************************************)
MaxFiniteK == 2^14 - 1

Finite(hi, lo) ==
    [inf |-> FALSE, hi |-> hi, lo |-> IF hi # 0 THEN 0 ELSE lo, half |-> FALSE]

Infinity == [inf |-> TRUE, hi |-> 0, lo |-> 0, half |-> FALSE]

NegInfinity == [inf |-> TRUE, hi |-> -1, lo |-> 0, half |-> FALSE]

NaN == [inf |-> TRUE, hi |-> 0, lo |-> 1, half |-> FALSE]

Cents(c) == Finite(0, c)

\* c cents and a half
HalfCents(c) == [inf |-> FALSE, hi |-> 0, lo |-> c, half |-> TRUE]

\* The cents of a number below 2^1010, counted in half cents, and back
HalfCentsOf(a) == 2 * a.lo + (IF a.half THEN 1 ELSE 0)

FromHalfCents(h) ==
    [inf |-> FALSE, hi |-> 0, lo |-> h \div 2, half |-> h % 2 = 1]

Huge(k) == IF k > MaxFiniteK THEN Infinity ELSE Finite(k, 0)

NumberIsFinite(a) == ~a.inf

\* a + b, for a and b finite and not negative, or Infinity
NumAdd(a, b) ==
    IF a.inf \/ b.inf THEN Infinity
    ELSE IF a.hi + b.hi > MaxFiniteK THEN Infinity
    ELSE IF a.hi + b.hi # 0 THEN Finite(a.hi + b.hi, 0)
    ELSE FromHalfCents(HalfCentsOf(a) + HalfCentsOf(b))

\* a - b, for a and b finite and not negative, or Infinity
NumSub(a, b) ==
    IF a.inf /\ b.inf THEN NaN
    ELSE IF a.inf THEN Infinity
    ELSE IF b.inf THEN NegInfinity
    ELSE IF a.hi - b.hi # 0 THEN Finite(a.hi - b.hi, 0)
    ELSE IF a.hi # 0 THEN Cents(0)
    ELSE FromHalfCents(HalfCentsOf(a) - HalfCentsOf(b))

\* a * f, f a non-negative integer
NumMul(a, f) ==
    IF a.inf THEN Infinity
    ELSE IF a.hi * f > MaxFiniteK THEN Infinity
    ELSE IF a.hi * f # 0 THEN Finite(a.hi * f, 0)
    ELSE FromHalfCents(HalfCentsOf(a) * f)

\* a < b
NumLess(a, b) ==
    IF a = NaN \/ b = NaN THEN FALSE
    ELSE IF a.inf THEN a = NegInfinity /\ b # NegInfinity
    ELSE IF b.inf THEN b = Infinity
    ELSE IF a.hi # b.hi THEN a.hi < b.hi
    ELSE HalfCentsOf(a) < HalfCentsOf(b)

\* Math.round(amount * 100) / 100 : amount * 100 overflows for a huge
\* amount, and Math.round(Infinity) / 100 is Infinity; whole cents come
\* back as they are, and Math.round takes c + 0.5 to c + 1.
RoundToCents(amount) ==
    IF amount.inf \/ amount.hi * 100 > MaxFiniteK THEN Infinity
    ELSE IF amount.half THEN Cents(amount.lo + 1)
    ELSE amount

(***************************************************************************)
(* Characters and strings.                                                 *)
(***************************************************************************)
LowerCase == <<"a", "b", "c", "d", "e", "f", "g", "h", "i", "j", "k", "l", "m",
               "n", "o", "p", "q", "r", "s", "t", "u", "v", "w", "x", "y", "z">>

UpperCase == <<"A", "B", "C", "D", "E", "F", "G", "H", "I", "J", "K", "L", "M",
               "N", "O", "P", "Q", "R", "S", "T", "U", "V", "W", "X", "Y", "Z">>

DigitChars == <<"0", "1", "2", "3", "4", "5", "6", "7", "8", "9">>

Range(s) == {s[i] : i \in 1..Len(s)}

IsWhitespace(c) == c \in {" ", "\t", "\n"}

\* String.prototype.toUpperCase, one character
ToUpperChar(c) ==
    IF c \in Range(LowerCase)
    THEN UpperCase[CHOOSE i \in 1..Len(LowerCase) : LowerCase[i] = c]
    ELSE c

ToUpperCase(s) == [i \in 1..Len(s) |-> ToUpperChar(s[i])]

RECURSIVE TrimStart(_)
TrimStart(s) ==
    IF s # <<>> /\ IsWhitespace(Head(s)) THEN TrimStart(Tail(s)) ELSE s

RECURSIVE TrimEnd(_)
TrimEnd(s) ==
    IF s # <<>> /\ IsWhitespace(s[Len(s)])
    THEN TrimEnd(SubSeq(s, 1, Len(s) - 1))
    ELSE s

\* String.prototype.trim
Trim(s) == TrimEnd(TrimStart(s))

NoError == ""

(***************************************************************************)
(* Currency                                                                *)
(***************************************************************************)
SUPPORTED_CURRENCIES ==
    {<<"U", "S", "D">>, <<"E", "U", "R">>, <<"C", "O", "P">>,
     <<"G", "B", "P">>, <<"J", "P", "Y">>}

NoCurrency == [code |-> <<>>]

\* Currency.create keeping the code as it was given
CurrencyCreate_KeepsRawCode(code) ==
    IF code = <<>> \/ Len(Trim(code)) = 0
    THEN [ok |-> FALSE, err |-> "CurrencyEmpty", val |-> NoCurrency]
    ELSE LET upperCode == ToUpperCase(Trim(code))
         IN  IF Len(upperCode) # 3
             THEN [ok |-> FALSE, err |-> "CurrencyLength", val |-> NoCurrency]
             ELSE IF upperCode \notin SUPPORTED_CURRENCIES
             THEN [ok |-> FALSE, err |-> "CurrencyUnsupported", val |-> NoCurrency]
             ELSE [ok |-> TRUE, err |-> NoError, val |-> [code |-> code]]

CurrencyCreate(code) ==
    IF code = <<>> \/ Len(Trim(code)) = 0
    THEN [ok |-> FALSE, err |-> "CurrencyEmpty", val |-> NoCurrency]
    ELSE LET upperCode == ToUpperCase(Trim(code))
         IN  IF Len(upperCode) # 3
             THEN [ok |-> FALSE, err |-> "CurrencyLength", val |-> NoCurrency]
             ELSE IF upperCode \notin SUPPORTED_CURRENCIES
             THEN [ok |-> FALSE, err |-> "CurrencyUnsupported", val |-> NoCurrency]
             ELSE [ok |-> TRUE, err |-> NoError, val |-> [code |-> upperCode]]

CurrencyEquals(a, b) == a.code = b.code

(***************************************************************************)
(* Money                                                                   *)
(***************************************************************************)
NoMoney == [amount |-> Cents(0), currency |-> NoCurrency]

MoneyCreate(amount, currency) ==
    IF ~NumberIsFinite(amount)
    THEN [ok |-> FALSE, err |-> "AmountNotFinite", val |-> NoMoney]
    ELSE IF NumLess(amount, Cents(0))
    THEN [ok |-> FALSE, err |-> "AmountNegative", val |-> NoMoney]
    ELSE [ok |-> TRUE, err |-> NoError,
          val |-> [amount |-> RoundToCents(amount), currency |-> currency]]

MoneyZero(currency) == [amount |-> Cents(0), currency |-> currency]

EnsureSameCurrency(a, b) ==
    IF ~CurrencyEquals(a.currency, b.currency) THEN "CurrencyMismatch" ELSE NoError

MoneyAdd(a, b) ==
    IF EnsureSameCurrency(a, b) # NoError
    THEN [ok |-> FALSE, err |-> EnsureSameCurrency(a, b), val |-> NoMoney]
    ELSE MoneyCreate(NumAdd(a.amount, b.amount), a.currency)

\* factor is the value of a Quantity: a positive integer
MoneyMultiply(a, factor) ==
    IF factor < 0
    THEN [ok |-> FALSE, err |-> "InvalidFactor", val |-> NoMoney]
    ELSE MoneyCreate(NumMul(a.amount, factor), a.currency)

\* subtract without the check of the sign of the result
MoneySubtract_NoSignCheck(a, b) ==
    IF EnsureSameCurrency(a, b) # NoError
    THEN [ok |-> FALSE, err |-> EnsureSameCurrency(a, b), val |-> NoMoney]
    ELSE MoneyCreate(NumSub(a.amount, b.amount), a.currency)

MoneySubtract(a, b) ==
    IF EnsureSameCurrency(a, b) # NoError
    THEN [ok |-> FALSE, err |-> EnsureSameCurrency(a, b), val |-> NoMoney]
    ELSE IF NumLess(NumSub(a.amount, b.amount), Cents(0))
    THEN [ok |-> FALSE, err |-> "NegativeResult", val |-> NoMoney]
    ELSE MoneyCreate(NumSub(a.amount, b.amount), a.currency)

MoneyEquals(a, b) == a.amount = b.amount /\ CurrencyEquals(a.currency, b.currency)

\* isGreaterThan, isLessThan: the boolean returned, or the error thrown
MoneyIsGreaterThan(a, b) ==
    IF EnsureSameCurrency(a, b) # NoError
    THEN [ok |-> FALSE, err |-> EnsureSameCurrency(a, b), holds |-> FALSE]
    ELSE [ok |-> TRUE, err |-> NoError, holds |-> NumLess(b.amount, a.amount)]

MoneyIsLessThan(a, b) ==
    IF EnsureSameCurrency(a, b) # NoError
    THEN [ok |-> FALSE, err |-> EnsureSameCurrency(a, b), holds |-> FALSE]
    ELSE [ok |-> TRUE, err |-> NoError, holds |-> NumLess(a.amount, b.amount)]

\* No Money operation made yet
NoOutcome ==
    [op |-> "", amount |-> Cents(0), code |-> <<>>, ok |-> FALSE, err |-> NoError,
     val |-> NoMoney, holds |-> FALSE]

(***************************************************************************)
(* Sku                                                                     *)
(***************************************************************************)
MIN_LENGTH == 3

MAX_LENGTH == 50

\* /^[A-Z0-9\-]+$/
ValidPattern(s) ==
    /\ s # <<>>
    /\ \A i \in 1..Len(s) :
           s[i] \in Range(UpperCase) \cup Range(DigitChars) \cup {"-"}

NoSku == [code |-> <<>>]

\* Sku.create storing the code as given instead of the normalized one
SkuCreate_KeepsRawCode(code) ==
    IF code = <<>> \/ Len(Trim(code)) = 0
    THEN [ok |-> FALSE, err |-> "SkuEmpty", val |-> NoSku]
    ELSE LET normalized == ToUpperCase(Trim(code))
         IN  IF Len(normalized) < MIN_LENGTH
             THEN [ok |-> FALSE, err |-> "SkuTooShort", val |-> NoSku]
             ELSE IF Len(normalized) > MAX_LENGTH
             THEN [ok |-> FALSE, err |-> "SkuTooLong", val |-> NoSku]
             ELSE IF ~ValidPattern(normalized)
             THEN [ok |-> FALSE, err |-> "SkuPattern", val |-> NoSku]
             ELSE [ok |-> TRUE, err |-> NoError, val |-> [code |-> code]]

SkuCreate(code) ==
    IF code = <<>> \/ Len(Trim(code)) = 0
    THEN [ok |-> FALSE, err |-> "SkuEmpty", val |-> NoSku]
    ELSE LET normalized == ToUpperCase(Trim(code))
         IN  IF Len(normalized) < MIN_LENGTH
             THEN [ok |-> FALSE, err |-> "SkuTooShort", val |-> NoSku]
             ELSE IF Len(normalized) > MAX_LENGTH
             THEN [ok |-> FALSE, err |-> "SkuTooLong", val |-> NoSku]
             ELSE IF ~ValidPattern(normalized)
             THEN [ok |-> FALSE, err |-> "SkuPattern", val |-> NoSku]
             ELSE [ok |-> TRUE, err |-> NoError, val |-> [code |-> normalized]]

SkuEquals(a, b) == a.code = b.code

(***************************************************************************)
(* Quantity.  The number given to create is n, or n + 1/2 when half.       *)
(***************************************************************************)
MAX_QUANTITY_PER_ITEM == 10000

NoQuantity == [value |-> 0]

QuantityCreate(value) ==
    IF value.half
    THEN [ok |-> FALSE, err |-> "QuantityNotInteger", val |-> NoQuantity]
    ELSE IF value.n <= 0
    THEN [ok |-> FALSE, err |-> "QuantityNotPositive", val |-> NoQuantity]
    ELSE IF value.n > MAX_QUANTITY_PER_ITEM
    THEN [ok |-> FALSE, err |-> "QuantityTooLarge", val |-> NoQuantity]
    ELSE [ok |-> TRUE, err |-> NoError, val |-> [value |-> value.n]]

(***************************************************************************)
(* OrderItem                                                               *)
(***************************************************************************)
OrderItemCreate(sku, unitPrice, quantity) ==
    [sku |-> sku, unitPrice |-> unitPrice, quantity |-> quantity]

OrderItemCalculateTotal(item) ==
    MoneyMultiply(item.unitPrice, item.quantity.value)

(***************************************************************************)
(* Domain events.  occurredOn and eventId (the clock and a random string)  *)
(* are left out: no operation of the aggregate reads them.                 *)
(***************************************************************************)
OrderCreated(orderId, customerId, currency) ==
    [eventName |-> "OrderCreated", orderId |-> orderId,
     customerId |-> customerId, currency |-> currency]

ItemAddedToOrder(orderId, sku, unitPrice, quantity, itemTotal) ==
    [eventName |-> "ItemAddedToOrder", orderId |-> orderId, sku |-> sku,
     unitPrice |-> unitPrice, quantity |-> quantity, itemTotal |-> itemTotal]

OrderTotalCalculated(orderId, total, itemCount) ==
    [eventName |-> "OrderTotalCalculated", orderId |-> orderId,
     total |-> total, itemCount |-> itemCount]

(***************************************************************************)
(* OrderId, CustomerId                                                     *)
(***************************************************************************)
HexChars ==
    Range(DigitChars) \cup {"a", "b", "c", "d", "e", "f"}
                      \cup {"A", "B", "C", "D", "E", "F"}

\* /^[0-9a-f]{8}-[0-9a-f]{4}-4[0-9a-f]{3}-[89ab][0-9a-f]{3}-[0-9a-f]{12}$/i
UuidRegexTest(s) ==
    /\ Len(s) = 36
    /\ \A i \in 1..Len(s) :
           IF i \in {9, 14, 19, 24} THEN s[i] = "-"
           ELSE IF i = 15 THEN s[i] = "4"
           ELSE IF i = 20 THEN s[i] \in {"8", "9", "a", "b", "A", "B"}
           ELSE s[i] \in HexChars

NoOrderId == [value |-> <<>>]

OrderIdCreate(value) ==
    IF Trim(value) = <<>>
    THEN [ok |-> FALSE, err |-> "OrderIdEmpty", val |-> NoOrderId]
    ELSE IF ~UuidRegexTest(Trim(value))
    THEN [ok |-> FALSE, err |-> "OrderIdFormat", val |-> NoOrderId]
    ELSE [ok |-> TRUE, err |-> NoError, val |-> [value |-> Trim(value)]]

NoCustomerId == [value |-> <<>>]

CustomerIdCreate(value) ==
    IF Trim(value) = <<>>
    THEN [ok |-> FALSE, err |-> "CustomerIdEmpty", val |-> NoCustomerId]
    ELSE IF ~UuidRegexTest(Trim(value))
    THEN [ok |-> FALSE, err |-> "CustomerIdFormat", val |-> NoCustomerId]
    ELSE [ok |-> TRUE, err |-> NoError, val |-> [value |-> Trim(value)]]

(***************************************************************************)
(* Order: the aggregate's fields                                           *)
(***************************************************************************)
MAX_ITEMS == 100

VARIABLES
    id,            \* _id
    customerId,    \* _customerId
    currency,      \* _currency
    items,         \* _items
    domainEvents,  \* _domainEvents
    last,          \* the last call made on the order and what it returned or threw
    created,       \* the arguments Order.create was called with
    toFill,        \* items of the caller's initial batch still to be added
    freeAdds,      \* items pushed by addItem calls with freely chosen arguments
    cleared,       \* clearDomainEvents has been called on the order
    stored,        \* InMemoryOrderRepository.orders holds the order under its id
    response,      \* the last use case executed, its Result and what it did
    thisMoney,     \* a Money value: the receiver of the Money operations
    otherMoney,    \* a Money value: their argument
    outcome,       \* the last Money operation and what it returned or threw
    held,          \* the array that an accessor returned and the caller kept
    executions,    \* the CreateOrderUseCase.execute calls in flight, per caller
    orders         \* InMemoryOrderRepository.orders: id |-> the call whose Order it holds

vars ==
    <<id, customerId, currency, items, domainEvents, last, created, toFill, freeAdds,
      cleared, stored, response, thisMoney, otherMoney, outcome, held,
      executions, orders>>

\* The Money values operated on, apart from any order
moneyVars == <<thisMoney, otherMoney, outcome>>

raceVars == <<executions, orders>>

\* The callers that run CreateOrderUseCase.execute side by side
Callers == 1..2

\* No execute has begun
NoExecutions ==
    [c \in Callers |->
        [pc |-> "idle",
         input |-> [orderId |-> <<>>, customerId |-> <<>>, currency |-> <<>>],
         exists |-> FALSE, order |-> <<>>, published |-> <<>>, result |-> <<>>]]

\* new Map()
NoOrders == [key \in {} |-> 0]

\* The caller keeps no array
NoHeld == [kind |-> "none", shared |-> FALSE, frozen |-> FALSE, array |-> <<>>]

\* The order as one value
ThisOrder ==
    [id |-> id, customerId |-> customerId, currency |-> currency, items |-> items,
     domainEvents |-> domainEvents]

\* No use case has been executed
NoResponse ==
    [useCase |-> "", success |-> FALSE, data |-> <<>>,
     error |-> [type |-> "", message |-> "", field |-> "", code |-> "",
                resourceType |-> "", serviceName |-> ""],
     calls |-> <<>>, published |-> <<>>]

Call(op, err, money, snapshot) ==
    [op |-> op, err |-> err, money |-> money, snapshot |-> snapshot]

ItemCount == Len(items)

IsEmpty == Len(items) = 0

(***************************************************************************)
(* What the caller passes in                                               *)
(***************************************************************************)
\* '550e8400-e29b-41d4-a716-446655440000'
ExampleOrderId ==
    <<"5", "5", "0", "e", "8", "4", "0", "0", "-", "e", "2", "9", "b",
      "-", "4", "1", "d", "4", "-", "a", "7", "1", "6", "-", "4", "4",
      "6", "6", "5", "5", "4", "4", "0", "0", "0", "0">>

\* '660e8400-e29b-41d4-a716-446655440001'
ExampleCustomerId ==
    <<"6", "6", "0", "e", "8", "4", "0", "0", "-", "e", "2", "9", "b",
      "-", "4", "1", "d", "4", "-", "a", "7", "1", "6", "-", "4", "4",
      "6", "6", "5", "5", "4", "4", "0", "0", "0", "1">>

NotAUuid == <<"n", "o", "t", "-", "a", "-", "u", "u", "i", "d">>

RawOrderIds == {ExampleOrderId, <<" ">> \o ExampleOrderId \o <<" ">>, NotAUuid, <<>>}

RawCustomerIds == {ExampleCustomerId, NotAUuid}

OrderIds == {OrderIdCreate(v).val : v \in {r \in RawOrderIds : OrderIdCreate(r).ok}}

CustomerIds ==
    {CustomerIdCreate(v).val : v \in {r \in RawCustomerIds : CustomerIdCreate(r).ok}}

RawCurrencies ==
    {<<"U", "S", "D">>, <<" ", "e", "u", "r">>, <<"X", "Y", "Z">>, <<"U", "S">>, <<>>}

RawSkus ==
    {<<" ", "s", "k", "u", "-", "a", " ">>, <<"S", "K", "U", "-", "A">>,
     <<"f", "i", "l", "-", "0", "0", "1">>,
     <<"A", "B">>, <<"S", "K", "_", "1">>, <<" ", " ">>, <<>>,
     [i \in 1..(MAX_LENGTH + 1) |-> "A"]}

RawAmounts == {Cents(1000), Cents(550), Huge(163), Infinity, Cents(-1)}

RawQuantities ==
    {[n |-> 1, half |-> FALSE], [n |-> 2, half |-> FALSE],
     [n |-> MAX_QUANTITY_PER_ITEM, half |-> FALSE],
     [n |-> MAX_QUANTITY_PER_ITEM + 1, half |-> FALSE],
     [n |-> 0, half |-> FALSE], [n |-> 1, half |-> TRUE]}

\* The value objects the constructors accept
Currencies == {CurrencyCreate(c).val : c \in {r \in RawCurrencies : CurrencyCreate(r).ok}}

Skus == {SkuCreate(c).val : c \in {r \in RawSkus : SkuCreate(r).ok}}

Moneys ==
    {MoneyCreate(a, c).val : a \in {r \in RawAmounts : MoneyCreate(r, NoCurrency).ok},
                             c \in Currencies}

Quantities == {QuantityCreate(v).val : v \in {r \in RawQuantities : QuantityCreate(r).ok}}

\* The caller starts with an initial batch of none, MAX_ITEMS - 1 or MAX_ITEMS
\* items: FIL-001, FIL-002, ... at 1.00 in the order's currency
BatchSizes == {0, MAX_ITEMS - 1, MAX_ITEMS}

Filling == toFill > 0

FillerSku(n) ==
    SkuCreate(<<"F", "I", "L", "-", DigitChars[(n \div 100) + 1],
                DigitChars[((n \div 10) % 10) + 1], DigitChars[(n % 10) + 1]>>).val

FillerPrice == MoneyCreate(Cents(100), currency).val

FillerQuantity == QuantityCreate([n |-> 1, half |-> FALSE]).val

(***************************************************************************)
(* Order.create                                                            *)
(***************************************************************************)
\* Order.create without line 45: no OrderCreated event is recorded
OrderCreate_NoEvent(orderId, custId, cur) ==
    [id |-> orderId, customerId |-> custId, currency |-> cur, items |-> <<>>,
     domainEvents |-> <<>>]

OrderCreate(orderId, custId, cur) ==
    [id |-> orderId, customerId |-> custId, currency |-> cur, items |-> <<>>,
     domainEvents |-> <<OrderCreated(orderId, custId, cur)>>]

Init ==
    \E orderId \in OrderIds, custId \in CustomerIds, cur \in Currencies :
        LET order == OrderCreate(orderId, custId, cur)
        IN  /\ id = order.id
            /\ customerId = order.customerId
            /\ currency = order.currency
            /\ items = order.items
            /\ domainEvents = order.domainEvents
            /\ last = Call("create", NoError, NoMoney, <<>>)
            /\ created = [id |-> orderId, customerId |-> custId, currency |-> cur]
            /\ toFill \in BatchSizes
            /\ freeAdds = 0
            /\ cleared = FALSE
            /\ stored = FALSE
            /\ response = NoResponse
            /\ thisMoney = NoMoney
            /\ otherMoney = NoMoney
            /\ outcome = NoOutcome
            /\ held = NoHeld
            /\ executions = NoExecutions
            /\ orders = NoOrders

(***************************************************************************)
(* Order.addItem                                                           *)
(***************************************************************************)
\* ensureCurrencyMatches comparing the price's currency with itself
EnsureCurrencyMatches_SelfCompare(orderCurrency, unitPrice) ==
    IF ~CurrencyEquals(unitPrice.currency, unitPrice.currency)
    THEN "CurrencyMismatch"
    ELSE NoError

EnsureCurrencyMatches(orderCurrency, unitPrice) ==
    IF ~CurrencyEquals(orderCurrency, unitPrice.currency)
    THEN "CurrencyMismatch"
    ELSE NoError

\* ensureItemLimitNotExceeded with > for >=
EnsureItemLimitNotExceeded_OffByOne(its) ==
    IF Len(its) > MAX_ITEMS THEN "ItemLimitExceeded" ELSE NoError

EnsureItemLimitNotExceeded(its) ==
    IF Len(its) >= MAX_ITEMS THEN "ItemLimitExceeded" ELSE NoError

\* ensureNoDuplicateSku looking at the last item only
EnsureNoDuplicateSku_LastOnly(its, sku) ==
    IF Len(its) > 0 /\ SkuEquals(its[Len(its)].sku, sku)
    THEN "DuplicateSku"
    ELSE NoError

EnsureNoDuplicateSku(its, sku) ==
    IF \E i \in 1..Len(its) : SkuEquals(its[i].sku, sku)
    THEN "DuplicateSku"
    ELSE NoError

\* The checks with the duplicate check moved before the limit check
AddItemChecks_DuplicateFirst(sku, unitPrice, quantity) ==
    IF EnsureCurrencyMatches(currency, unitPrice) # NoError
    THEN EnsureCurrencyMatches(currency, unitPrice)
    ELSE IF EnsureNoDuplicateSku(items, sku) # NoError
    THEN EnsureNoDuplicateSku(items, sku)
    ELSE EnsureItemLimitNotExceeded(items)

\* The checks with the limit check moved before the currency check
AddItemChecks_LimitFirst(sku, unitPrice, quantity) ==
    IF EnsureItemLimitNotExceeded(items) # NoError
    THEN EnsureItemLimitNotExceeded(items)
    ELSE IF EnsureCurrencyMatches(currency, unitPrice) # NoError
    THEN EnsureCurrencyMatches(currency, unitPrice)
    ELSE EnsureNoDuplicateSku(items, sku)

\* The three checks of lines 78-80, in their order: the first error thrown
AddItemChecks(sku, unitPrice, quantity) ==
    IF EnsureCurrencyMatches(currency, unitPrice) # NoError
    THEN EnsureCurrencyMatches(currency, unitPrice)
    ELSE IF EnsureItemLimitNotExceeded(items) # NoError
    THEN EnsureItemLimitNotExceeded(items)
    ELSE EnsureNoDuplicateSku(items, sku)

\* addDomainEvent with unshift for push: the event is placed first
AddDomainEvent_Unshift(events, event) == <<event>> \o events

\* this._domainEvents.push(event)
AddDomainEvent(events, event) == Append(events, event)

\* The items after the call, the pending events after it, and the error thrown
AddItemOutcome(sku, unitPrice, quantity) ==
    IF AddItemChecks(sku, unitPrice, quantity) # NoError
    THEN [items |-> items, domainEvents |-> domainEvents,
          err |-> AddItemChecks(sku, unitPrice, quantity)]
    ELSE LET item == OrderItemCreate(sku, unitPrice, quantity)
             pushed == Append(items, item)
             itemTotal == OrderItemCalculateTotal(item)
         IN  IF ~itemTotal.ok
             THEN [items |-> pushed, domainEvents |-> domainEvents,
                   err |-> itemTotal.err]
             ELSE [items |-> pushed,
                   domainEvents |->
                       AddDomainEvent(domainEvents,
                                      ItemAddedToOrder(id, sku, unitPrice, quantity,
                                                       itemTotal.val)),
                   err |-> NoError]

AddItemCall(sku, unitPrice, quantity) ==
    LET out == AddItemOutcome(sku, unitPrice, quantity)
    IN  /\ items' = out.items
        /\ domainEvents' = out.domainEvents
        /\ last' = Call("addItem", out.err, NoMoney, <<>>)
        /\ UNCHANGED <<id, customerId, currency, created, cleared, stored, response,
                       moneyVars, held, raceVars>>

AddItem ==
    /\ ~Filling
    /\ freeAdds < MaxFreeAdds
    /\ \E sku \in Skus, unitPrice \in Moneys, quantity \in Quantities :
           /\ AddItemCall(sku, unitPrice, quantity)
           /\ freeAdds' = freeAdds + (Len(items') - Len(items))
    /\ UNCHANGED toFill

AddFiller ==
    /\ Filling
    /\ AddItemCall(FillerSku(Len(items) + 1), FillerPrice, FillerQuantity)
    /\ toFill' = toFill - 1
    /\ UNCHANGED freeAdds

(***************************************************************************)
(* Order.calculateTotal                                                    *)
(***************************************************************************)
\* One step of the reducer, (acc, item) => acc.add(item.calculateTotal());
\* acc is the result so far, and a throw is passed on
ReduceStep(acc, item) ==
    IF ~acc.ok
    THEN acc
    ELSE LET itemTotal == OrderItemCalculateTotal(item)
         IN  IF ~itemTotal.ok THEN itemTotal ELSE MoneyAdd(acc.val, itemTotal.val)

\* items.reduce(..., acc) over the items from..to, left to right (the range
\* is halved to keep the evaluation shallow; the order of the steps is that
\* of the array)
RECURSIVE Reduce(_, _, _, _)
Reduce(its, from, to, acc) ==
    IF from > to THEN acc
    ELSE IF from = to THEN ReduceStep(acc, its[from])
    ELSE LET mid == (from + to) \div 2
             left == Reduce(its, from, mid, acc)
         IN  IF ~left.ok THEN left ELSE Reduce(its, mid + 1, to, left)

\* calculateTotal without lines 101-103: an empty order is reduced and
\* recorded like any other
CalculateTotalOf_NoEmptyCase(its, events) ==
    LET total == Reduce(its, 1, Len(its),
                        [ok |-> TRUE, err |-> NoError, val |-> MoneyZero(currency)])
    IN  IF ~total.ok
        THEN [err |-> total.err, total |-> NoMoney, domainEvents |-> events]
        ELSE [err |-> NoError, total |-> total.val,
              domainEvents |->
                  Append(events, OrderTotalCalculated(id, total.val, Len(its)))]

\* calculateTotal on the items its with the events pending: the value returned
\* (or the error thrown) and the pending events after
CalculateTotalOf(its, events) ==
    IF Len(its) = 0
    THEN [err |-> NoError, total |-> MoneyZero(currency), domainEvents |-> events]
    ELSE LET total == Reduce(its, 1, Len(its),
                             [ok |-> TRUE, err |-> NoError,
                              val |-> MoneyZero(currency)])
         IN  IF ~total.ok
             THEN [err |-> total.err, total |-> NoMoney, domainEvents |-> events]
             ELSE [err |-> NoError, total |-> total.val,
                   domainEvents |->
                       AddDomainEvent(events,
                                      OrderTotalCalculated(id, total.val, Len(its)))]

\* The value returned (or the error thrown) and the pending events after
CalculateTotalOutcome == CalculateTotalOf(items, domainEvents)

PendingTotals ==
    Cardinality({i \in 1..Len(domainEvents) :
                     domainEvents[i].eventName = "OrderTotalCalculated"})

CalculateTotal ==
    /\ ~Filling
    /\ PendingTotals < MaxTotalEvents
    /\ domainEvents' = CalculateTotalOutcome.domainEvents
    /\ last' = Call("calculateTotal", CalculateTotalOutcome.err,
                    CalculateTotalOutcome.total, <<>>)
    /\ UNCHANGED <<id, customerId, currency, items, created, toFill, freeAdds,
                   cleared, stored, response, moneyVars, held, raceVars>>

GetTotalByCurrency ==
    /\ ~Filling
    /\ PendingTotals < MaxTotalEvents
    /\ domainEvents' = CalculateTotalOutcome.domainEvents
    /\ last' = Call("getTotalByCurrency", CalculateTotalOutcome.err,
                    CalculateTotalOutcome.total, <<>>)
    /\ UNCHANGED <<id, customerId, currency, items, created, toFill, freeAdds,
                   cleared, stored, response, moneyVars, held, raceVars>>

(***************************************************************************)
(* Order.getDomainEvents, Order.clearDomainEvents                          *)
(***************************************************************************)
\* getDomainEvents handing out the pending events and draining the queue
GetDomainEvents_Drains ==
    /\ ~Filling
    /\ last' = Call("getDomainEvents", NoError, NoMoney, domainEvents)
    /\ domainEvents' = <<>>
    /\ UNCHANGED <<id, customerId, currency, items, created, toFill, freeAdds,
                   cleared, stored, response, moneyVars, held, raceVars>>

GetDomainEvents ==
    /\ ~Filling
    /\ last' = Call("getDomainEvents", NoError, NoMoney, domainEvents)
    /\ UNCHANGED <<id, customerId, currency, items, domainEvents, created,
                   toFill, freeAdds, cleared, stored, response, moneyVars, held, raceVars>>

ClearDomainEvents ==
    /\ ~Filling
    /\ domainEvents' = <<>>
    /\ last' = Call("clearDomainEvents", NoError, NoMoney, <<>>)
    /\ cleared' = TRUE
    /\ UNCHANGED <<id, customerId, currency, items, created, toFill, freeAdds,
                   stored, response, moneyVars, held, raceVars>>

(***************************************************************************)
(* The arrays the accessors hand out, kept by the caller.                  *)
(***************************************************************************)
\* get items returning this._items itself
ItemsAccessor_Internal ==
    [kind |-> "items", shared |-> TRUE, frozen |-> FALSE, array |-> items]

\* get items: Object.freeze([...this._items])
ItemsAccessor ==
    [kind |-> "items", shared |-> FALSE, frozen |-> TRUE, array |-> items]

\* getDomainEvents returning this._domainEvents itself
DomainEventsAccessor_Internal ==
    [kind |-> "events", shared |-> TRUE, frozen |-> FALSE, array |-> domainEvents]

\* getDomainEvents: Object.freeze([...this._domainEvents])
DomainEventsAccessor ==
    [kind |-> "events", shared |-> FALSE, frozen |-> TRUE, array |-> domainEvents]

\* What the caller reads in the array it kept
HeldArray ==
    IF ~held.shared THEN held.array
    ELSE IF held.kind = "items" THEN items
    ELSE domainEvents

\* The caller reads order.items and keeps the array (it keeps one array)
KeepItems ==
    /\ ~Filling
    /\ held.kind = "none"
    /\ held' = ItemsAccessor
    /\ last' = Call("items", NoError, NoMoney, items)
    /\ UNCHANGED <<id, customerId, currency, items, domainEvents, created,
                   toFill, freeAdds, cleared, stored, response, moneyVars,
                   raceVars>>

\* The caller calls getDomainEvents and keeps the array
KeepDomainEvents ==
    /\ ~Filling
    /\ held.kind = "none"
    /\ held' = DomainEventsAccessor
    /\ last' = Call("getDomainEvents", NoError, NoMoney, domainEvents)
    /\ UNCHANGED <<id, customerId, currency, items, domainEvents, created,
                   toFill, freeAdds, cleared, stored, response, moneyVars,
                   raceVars>>

\* The array after the caller's write: length = 0, or pop()
Written(array, write) ==
    IF write = "length = 0" THEN <<>>
    ELSE IF array = <<>> THEN array
    ELSE SubSeq(array, 1, Len(array) - 1)

\* The caller writes to the array it kept: a frozen array throws TypeError
\* and stays as it is; an array that is the order's own changes the order
WriteHeld ==
    /\ ~Filling
    /\ held.kind # "none"
    /\ \E write \in {"length = 0", "pop"} :
           /\ last' = Call(write, IF held.frozen THEN "TypeError" ELSE NoError,
                           NoMoney, <<>>)
           /\ held' = IF held.frozen \/ held.shared THEN held
                      ELSE [held EXCEPT !.array = Written(held.array, write)]
           /\ items' = IF ~held.frozen /\ held.shared /\ held.kind = "items"
                       THEN Written(items, write)
                       ELSE items
           /\ domainEvents' = IF ~held.frozen /\ held.shared /\ held.kind = "events"
                              THEN Written(domainEvents, write)
                              ELSE domainEvents
    /\ UNCHANGED <<id, customerId, currency, created, toFill, freeAdds, cleared,
                   stored, response, moneyVars,
                   raceVars>>

Next ==
    \/ AddFiller
    \/ AddItem
    \/ CalculateTotal
    \/ GetTotalByCurrency
    \/ GetDomainEvents
    \/ ClearDomainEvents

Spec == Init /\ [][Next]_vars

\* The order with a caller that keeps the arrays it is handed; the order is
\* filled one addItem at a time
SnapshotInit == Init /\ toFill = 0 /\ currency.code = <<"U", "S", "D">>

SnapshotNext ==
    \/ AddItem
    \/ CalculateTotal
    \/ ClearDomainEvents
    \/ KeepItems
    \/ KeepDomainEvents
    \/ WriteHeld

SnapshotSpec == SnapshotInit /\ [][SnapshotNext]_vars

(***************************************************************************)
(* Application errors, Result                                              *)
(***************************************************************************)
NoAppError == NoResponse.error

\* ValidationError that does not keep the field
ValidationError_NoField(message, field) ==
    [NoAppError EXCEPT !.type = "ValidationError", !.message = message]

ValidationError(message, field) ==
    [NoAppError EXCEPT !.type = "ValidationError", !.message = message,
                       !.field = field]

NotFoundError(message, resourceType) ==
    [NoAppError EXCEPT !.type = "NotFoundError", !.message = message,
                       !.resourceType = resourceType]

ConflictError(message, code) ==
    [NoAppError EXCEPT !.type = "ConflictError", !.message = message, !.code = code]

InfraError(message, serviceName) ==
    [NoAppError EXCEPT !.type = "InfraError", !.message = message,
                       !.serviceName = serviceName]

\* The conflict carrying a fixed text instead of error.message
ThrownMessage_Fixed(err, sku) == <<"Business", "rule", "violation">>

\* The message of the Error that order.addItem threw, word by word; the SKU
\* code stands in it character by character
ThrownMessage(err, sku) ==
    IF err = "ItemLimitExceeded"
    THEN <<"Order", "cannot", "have", "more", "than", "100", "items">>
    ELSE IF err = "DuplicateSku"
    THEN <<"Item", "with", "SKU">> \o sku.code
             \o <<"already", "exists", "in", "the", "order">>
    ELSE <<err>>

\* ok(data), fail(error)
Ok(data) == [success |-> TRUE, data |-> data, error |-> NoAppError]

Fail(error) == [success |-> FALSE, data |-> <<>>, error |-> error]

\* What a port or a domain call throws: a plain Error, no AppError
ThrownError == [NoAppError EXCEPT !.type = "Error"]

\* An execute without its outer try/catch: the promise rejects with the error
CatchBlock_Rethrows(message, error) == [rejected |-> error]

\* The catch block that closes execute: whatever was thrown inside the try
\* becomes a failure carrying an InfraError of the OrderRepository
CatchBlock(message, error) == Fail(InfraError(message, "OrderRepository"))

(***************************************************************************)
(* InMemoryOrderRepository, StaticPricingService                           *)
(***************************************************************************)
\* this.orders.has(id.value)
RepositoryExists_Never(orderId) == FALSE

RepositoryExists(orderId) == stored /\ id.value = orderId.value

\* findById returning whatever order the map holds
RepositoryFindById_AnyOrder(orderId) == [found |-> stored, order |-> ThisOrder]

\* this.orders.get(id.value) || null
RepositoryFindById(orderId) ==
    IF stored /\ id.value = orderId.value
    THEN [found |-> TRUE, order |-> ThisOrder]
    ELSE [found |-> FALSE, order |-> ThisOrder]

\* The prices the pricing service is constructed with
Catalogue ==
    {[sku |-> <<"S", "K", "U", "-", "A">>, currency |-> <<"U", "S", "D">>,
      price |-> Cents(1000)],
     [sku |-> <<"S", "K", "U", "-", "A">>, currency |-> <<"E", "U", "R">>,
      price |-> Cents(550)],
     [sku |-> <<"B", "I", "G", "-", "1">>, currency |-> <<"U", "S", "D">>,
      price |-> Huge(163)]}
        \cup {[sku |-> FillerSku(n).code, currency |-> c, price |-> Cents(100)] :
                  n \in 1..MAX_ITEMS, c \in {<<"U", "S", "D">>, <<"E", "U", "R">>}}

\* StaticPricingService.getPrice: the Money returned or the error thrown
PricingServiceGetPrice(sku, cur) ==
    IF ~\E p \in Catalogue : p.sku = sku.code
    THEN [ok |-> FALSE, val |-> NoMoney,
          thrown |-> NotFoundError("ProductNotFound", "Product")]
    ELSE IF ~\E p \in Catalogue : p.sku = sku.code /\ p.currency = cur.code
    THEN [ok |-> FALSE, val |-> NoMoney,
          thrown |-> NotFoundError("PriceNotAvailable", "Price")]
    ELSE LET entry == CHOOSE p \in Catalogue :
                          p.sku = sku.code /\ p.currency = cur.code
             money == MoneyCreate(entry.price, cur)
         IN  IF ~money.ok
             THEN [ok |-> FALSE, val |-> NoMoney,
                   thrown |-> InfraError(money.err, "StaticPricingService")]
             ELSE [ok |-> TRUE, val |-> money.val, thrown |-> NoAppError]

(***************************************************************************)
(* CreateOrderUseCase, AddItemToOrderUseCase                               *)
(*                                                                         *)
(* One execute call runs from start to end with no other call in between.  *)
(* fault names the port call that throws in this execution, if reached.    *)
(***************************************************************************)
\* What an execution leaves behind: the order, whether the repository holds
\* it, the Result returned, the port calls made and the events that a
\* publish call has accepted
Exec(order, isStored, result, calls, published) ==
    [order |-> order, stored |-> isStored, result |-> result, calls |-> calls,
     published |-> published]

CreateOrderFaults == {"none", "exists", "save", "publish", "now"}

AddItemToOrderFaults == {"none", "findById", "getPrice", "save", "publish"}

CreateOrderExecute(input, fault) ==
    LET orderIdResult == OrderIdCreate(input.orderId)
        customerIdResult == CustomerIdCreate(input.customerId)
        currencyResult == CurrencyCreate(input.currency)
        order == OrderCreate(orderIdResult.val, customerIdResult.val,
                             currencyResult.val)
        events == order.domainEvents
        afterPublish == IF Len(events) > 0
                        THEN [order EXCEPT !.domainEvents = <<>>]
                        ELSE order
        calls == <<"exists", "save">>
                     \o (IF Len(events) > 0 THEN <<"publish">> ELSE <<>>)
        infra == CatchBlock("FailedToCreateOrder", ThrownError)
    IN  IF ~orderIdResult.ok
        THEN Exec(ThisOrder, stored,
                  Fail(ValidationError(orderIdResult.err, "orderId")), <<>>, <<>>)
        ELSE IF ~customerIdResult.ok
        THEN Exec(ThisOrder, stored,
                  Fail(ValidationError(customerIdResult.err, "customerId")),
                  <<>>, <<>>)
        ELSE IF ~currencyResult.ok
        THEN Exec(ThisOrder, stored,
                  Fail(ValidationError(currencyResult.err, "currency")), <<>>, <<>>)
        ELSE IF fault = "exists"
        THEN Exec(ThisOrder, stored, infra, <<"exists">>, <<>>)
        ELSE IF RepositoryExists(orderIdResult.val)
        THEN Exec(ThisOrder, stored,
                  Fail(ConflictError("OrderAlreadyExists", "DUPLICATE_ORDER")),
                  <<"exists">>, <<>>)
        ELSE IF fault = "save"
        THEN Exec(ThisOrder, stored, infra, <<"exists", "save">>, <<>>)
        ELSE IF Len(events) > 0 /\ fault = "publish"
        THEN Exec(order, TRUE, infra, calls, <<>>)
        ELSE IF fault = "now"
        THEN Exec(afterPublish, TRUE, infra, calls \o <<"now">>, events)
        ELSE Exec(afterPublish, TRUE,
                  Ok([orderId |-> orderIdResult.val.value,
                      customerId |-> customerIdResult.val.value,
                      currency |-> currencyResult.val.code]),
                  calls \o <<"now">>, events)

\* getProductPrice wrapping whatever getPrice threw in an InfraError
GetProductPrice_AlwaysInfra(sku, cur, fault) ==
    LET price == IF fault = "getPrice"
                 THEN [ok |-> FALSE, val |-> NoMoney,
                       thrown |-> [NoAppError EXCEPT !.type = "Error"]]
                 ELSE PricingServiceGetPrice(sku, cur)
    IN  IF price.ok
        THEN [ok |-> TRUE, val |-> price.val, error |-> NoAppError]
        ELSE [ok |-> FALSE, val |-> NoMoney,
              error |-> InfraError("FailedToGetPrice", "PricingService")]

\* getProductPrice: the price, or the failure returned for what getPrice threw
GetProductPrice(sku, cur, fault) ==
    LET price == IF fault = "getPrice"
                 THEN [ok |-> FALSE, val |-> NoMoney,
                       thrown |-> [NoAppError EXCEPT !.type = "Error"]]
                 ELSE PricingServiceGetPrice(sku, cur)
    IN  IF price.ok
        THEN [ok |-> TRUE, val |-> price.val, error |-> NoAppError]
        ELSE IF price.thrown.type = "NotFoundError"
        THEN [ok |-> FALSE, val |-> NoMoney, error |-> price.thrown]
        ELSE [ok |-> FALSE, val |-> NoMoney,
              error |-> InfraError("FailedToGetPrice", "PricingService")]

AddItemToOrderExecute(input, fault) ==
    LET orderIdResult == OrderIdCreate(input.orderId)
        skuResult == SkuCreate(input.sku)
        quantityResult == QuantityCreate(input.qty)
        currencyResult == CurrencyCreate(input.currency)
        found == RepositoryFindById(orderIdResult.val)
        priceResult == GetProductPrice(skuResult.val, currencyResult.val, fault)
        added == AddItemOutcome(skuResult.val, priceResult.val, quantityResult.val)
        afterAdd == [ThisOrder EXCEPT !.items = added.items,
                                      !.domainEvents = added.domainEvents]
        events == added.domainEvents
        calls == <<"findById", "getPrice", "save">>
                     \o (IF Len(events) > 0 THEN <<"publish">> ELSE <<>>)
        total == CalculateTotalOf(added.items,
                                  IF Len(events) > 0 THEN <<>> ELSE events)
        infra == CatchBlock("FailedToAddItem", ThrownError)
    IN  IF ~orderIdResult.ok
        THEN Exec(ThisOrder, stored,
                  Fail(ValidationError(orderIdResult.err, "orderId")), <<>>, <<>>)
        ELSE IF ~skuResult.ok
        THEN Exec(ThisOrder, stored,
                  Fail(ValidationError(skuResult.err, "sku")), <<>>, <<>>)
        ELSE IF ~quantityResult.ok
        THEN Exec(ThisOrder, stored,
                  Fail(ValidationError(quantityResult.err, "qty")), <<>>, <<>>)
        ELSE IF ~currencyResult.ok
        THEN Exec(ThisOrder, stored,
                  Fail(ValidationError(currencyResult.err, "currency")), <<>>, <<>>)
        ELSE IF fault = "findById"
        THEN Exec(ThisOrder, stored, infra, <<"findById">>, <<>>)
        ELSE IF ~found.found
        THEN Exec(ThisOrder, stored,
                  Fail(NotFoundError("OrderNotFound", "Order")),
                  <<"findById">>, <<>>)
        ELSE IF ~CurrencyEquals(found.order.currency, currencyResult.val)
        THEN Exec(ThisOrder, stored,
                  Fail(ValidationError("CurrencyMismatch", "currency")),
                  <<"findById">>, <<>>)
        ELSE IF ~priceResult.ok
        THEN Exec(ThisOrder, stored, Fail(priceResult.error),
                  <<"findById", "getPrice">>, <<>>)
        ELSE IF added.err # NoError
        THEN Exec(afterAdd, stored,
                  Fail(ConflictError(ThrownMessage(added.err, skuResult.val),
                                     "BUSINESS_RULE_VIOLATION")),
                  <<"findById", "getPrice">>, <<>>)
        ELSE IF fault = "save"
        THEN Exec(afterAdd, stored, infra,
                  <<"findById", "getPrice", "save">>, <<>>)
        ELSE IF Len(events) > 0 /\ fault = "publish"
        THEN Exec(afterAdd, stored, infra, calls, <<>>)
        ELSE IF total.err # NoError
        THEN Exec([afterAdd EXCEPT !.domainEvents = total.domainEvents], stored,
                  infra, calls, events)
        ELSE Exec([afterAdd EXCEPT !.domainEvents = total.domainEvents], stored,
                  Ok([orderId |-> orderIdResult.val.value,
                      total |-> [amount |-> total.total.amount,
                                 currency |-> total.total.currency.code]]),
                  calls, events)

\* What the callers of the use cases pass in
OtherOrderId == [ExampleOrderId EXCEPT ![36] = "7"]

InputCurrencies == {<<"U", "S", "D">>, <<" ", "e", "u", "r">>, <<"X", "Y", "Z">>}

InputSkus ==
    {<<" ", "s", "k", "u", "-", "a", " ">>, <<"B", "I", "G", "-", "1">>,
     <<"N", "O", "P", "E", "-", "1">>, <<"A", "B">>}

InputQuantities ==
    {[n |-> 1, half |-> FALSE], [n |-> MAX_QUANTITY_PER_ITEM, half |-> FALSE],
     [n |-> 0, half |-> FALSE]}

CreateOrderInputs ==
    [orderId : RawOrderIds, customerId : RawCustomerIds, currency : InputCurrencies]

AddItemToOrderInputs ==
    [orderId : {ExampleOrderId, OtherOrderId, NotAUuid}, sku : InputSkus,
     qty : InputQuantities, currency : InputCurrencies]

\* The state after an execution
Executed(useCase, out) ==
    /\ id' = out.order.id
    /\ customerId' = out.order.customerId
    /\ currency' = out.order.currency
    /\ items' = out.order.items
    /\ domainEvents' = out.order.domainEvents
    /\ stored' = out.stored
    /\ response' = [useCase |-> useCase, success |-> out.result.success,
                    data |-> out.result.data, error |-> out.result.error,
                    calls |-> out.calls, published |-> out.published]
    /\ cleared' = (cleared \/ out.published # <<>>)
    /\ created' = IF ~stored /\ out.stored
                  THEN [id |-> out.order.id, customerId |-> out.order.customerId,
                        currency |-> out.order.currency]
                  ELSE created
    /\ UNCHANGED <<last, freeAdds, moneyVars, held, raceVars>>

CreateOrderUseCase ==
    /\ ~(stored /\ Filling)
    /\ \E input \in CreateOrderInputs, fault \in CreateOrderFaults :
           Executed("CreateOrder", CreateOrderExecute(input, fault))
    /\ UNCHANGED toFill

AddItemToOrderUseCase ==
    /\ ~Filling
    /\ \E input \in AddItemToOrderInputs, fault \in AddItemToOrderFaults :
           Executed("AddItemToOrder", AddItemToOrderExecute(input, fault))
    /\ UNCHANGED toFill

\* The caller's loop that fills a stored order: one execute per filler SKU,
\* quantity 1, in the order's currency
FillerInput ==
    [orderId |-> id.value, sku |-> FillerSku(Len(items) + 1).code,
     qty |-> [n |-> 1, half |-> FALSE], currency |-> currency.code]

AddFillerToOrderUseCase ==
    /\ stored /\ Filling
    /\ Executed("AddItemToOrder", AddItemToOrderExecute(FillerInput, "none"))
    /\ toFill' = toFill - 1

\* An empty repository and no order yet; the caller will fill the order it
\* creates with an initial batch before doing anything else
UseCaseInit ==
    /\ id = NoOrderId
    /\ customerId = NoCustomerId
    /\ currency = NoCurrency
    /\ items = <<>>
    /\ domainEvents = <<>>
    /\ last = Call("", NoError, NoMoney, <<>>)
    /\ created = [id |-> NoOrderId, customerId |-> NoCustomerId,
                  currency |-> NoCurrency]
    /\ toFill \in BatchSizes
    /\ freeAdds = 0
    /\ cleared = FALSE
    /\ stored = FALSE
    /\ response = NoResponse
    /\ thisMoney = NoMoney
    /\ otherMoney = NoMoney
    /\ outcome = NoOutcome
    /\ held = NoHeld
    /\ executions = NoExecutions
    /\ orders = NoOrders

UseCaseNext ==
    CreateOrderUseCase \/ AddItemToOrderUseCase \/ AddFillerToOrderUseCase

UseCaseSpec == UseCaseInit /\ [][UseCaseNext]_vars

(***************************************************************************)
(* OrderController: the HTTP replies for requests handed to the use cases  *)
(***************************************************************************)
\* reply.status(status).send({success: false, error})
ErrorReply(status, error) ==
    [status |-> status, body |-> [success |-> FALSE, error |-> error]]

Undefined == "undefined"

\* error.conflictReason: the value of that property if the error object has
\* one, undefined otherwise
ConflictReasonOf(error) ==
    IF "conflictReason" \in DOMAIN error THEN error.conflictReason ELSE Undefined

\* handleError
HandleError(error) ==
    IF error.type = "ValidationError"
    THEN ErrorReply(400, [code |-> "VALIDATION_ERROR", message |-> error.message,
                          field |-> error.field])
    ELSE IF error.type = "NotFoundError"
    THEN ErrorReply(404, [code |-> "NOT_FOUND", message |-> error.message,
                          resourceType |-> error.resourceType])
    ELSE IF error.type = "ConflictError"
    THEN ErrorReply(409, [code |-> IF ConflictReasonOf(error) \notin {Undefined, ""}
                                   THEN ConflictReasonOf(error)
                                   ELSE "CONFLICT",
                          message |-> error.message])
    ELSE IF error.type = "InfraError"
    THEN ErrorReply(503, [code |-> "SERVICE_UNAVAILABLE",
                          message |-> "ServiceTemporarilyUnavailable"])
    ELSE ErrorReply(500, [code |-> "INTERNAL_ERROR",
                          message |-> "AnUnexpectedErrorOccurred"])

\* createOrder: POST /orders
OrderControllerCreateOrder(body, fault) ==
    IF body.orderId = <<>> \/ body.customerId = <<>> \/ body.currency = <<>>
    THEN ErrorReply(400, [code |-> "VALIDATION_ERROR",
                          message |-> "MissingRequiredFields"])
    ELSE LET out == CreateOrderExecute(body, fault)
         IN  IF ~out.result.success
             THEN HandleError(out.result.error)
             ELSE [status |-> 201,
                   body |-> [success |-> TRUE, data |-> out.result.data]]

\* addItem: POST /orders/:orderId/items
OrderControllerAddItem(params, body, fault) ==
    IF body.sku = <<>> \/ body.currency = <<>>
    THEN ErrorReply(400, [code |-> "VALIDATION_ERROR",
                          message |-> "MissingRequiredFields"])
    ELSE IF body.qty.n < 0 \/ (body.qty.n = 0 /\ ~body.qty.half)
    THEN ErrorReply(400, [code |-> "VALIDATION_ERROR",
                          message |-> "QtyMustBePositive"])
    ELSE LET out == AddItemToOrderExecute(
                        [orderId |-> params.orderId, sku |-> body.sku,
                         qty |-> body.qty, currency |-> body.currency], fault)
         IN  IF ~out.result.success
             THEN HandleError(out.result.error)
             ELSE [status |-> 200,
                   body |-> [success |-> TRUE, data |-> out.result.data]]

(***************************************************************************)
(* Money on its own: two Money values and the operations called on them.   *)
(***************************************************************************)
orderVars ==
    <<id, customerId, currency, items, domainEvents, last, created, toFill, freeAdds,
      cleared, stored, response, held>>

\* The numbers handed to Money.create: 0, 0.01, 10.00, 0.125, three amounts
\* near Number.MAX_VALUE, the values that are not finite, -0.01 and -0.005
MoneyAmounts ==
    {Cents(0), Cents(1), Cents(1000), HalfCents(12), Huge(5), Huge(163), Huge(164),
     Infinity, NegInfinity, NaN, Cents(-1), HalfCents(-1)}

\* The factors handed to multiply
MoneyFactors == {0, 2, MAX_QUANTITY_PER_ITEM, -1}

\* The Money values Money.create returns for those numbers
MoneyValues ==
    {MoneyCreate(a, c).val :
         a \in {r \in MoneyAmounts : MoneyCreate(r, NoCurrency).ok}, c \in Currencies}

\* What a Money operation returned or threw
Returned(op, amount, res) ==
    [op |-> op, amount |-> amount, code |-> <<>>, ok |-> res.ok, err |-> res.err,
     val |-> IF "val" \in DOMAIN res THEN res.val ELSE NoMoney,
     holds |-> IF "holds" \in DOMAIN res THEN res.holds ELSE FALSE]

CallCreate ==
    /\ \E amount \in MoneyAmounts, cur \in Currencies :
           outcome' = Returned("create", amount, MoneyCreate(amount, cur))
    /\ UNCHANGED <<thisMoney, otherMoney, orderVars, raceVars>>

CallAdd ==
    /\ outcome' = Returned("add", Cents(0), MoneyAdd(thisMoney, otherMoney))
    /\ UNCHANGED <<thisMoney, otherMoney, orderVars, raceVars>>

CallSubtract ==
    /\ outcome' = Returned("subtract", Cents(0), MoneySubtract(thisMoney, otherMoney))
    /\ UNCHANGED <<thisMoney, otherMoney, orderVars, raceVars>>

\* a.add(b).subtract(b): subtract called on the Money that add returned
CallSubtractFromSum ==
    /\ outcome.op = "add" /\ outcome.ok
    /\ outcome' = Returned("add.subtract", Cents(0),
                           MoneySubtract(outcome.val, otherMoney))
    /\ UNCHANGED <<thisMoney, otherMoney, orderVars, raceVars>>

CallMultiply ==
    /\ \E factor \in MoneyFactors :
           outcome' = Returned("multiply", Cents(factor),
                               MoneyMultiply(thisMoney, factor))
    /\ UNCHANGED <<thisMoney, otherMoney, orderVars, raceVars>>

CallIsGreaterThan ==
    /\ outcome' = Returned("isGreaterThan", Cents(0),
                           MoneyIsGreaterThan(thisMoney, otherMoney))
    /\ UNCHANGED <<thisMoney, otherMoney, orderVars, raceVars>>

CallIsLessThan ==
    /\ outcome' = Returned("isLessThan", Cents(0),
                           MoneyIsLessThan(thisMoney, otherMoney))
    /\ UNCHANGED <<thisMoney, otherMoney, orderVars, raceVars>>

\* The strings handed to Currency.create: the supported codes and some
\* others, in upper, lower or mixed case, with or without blanks around
CurrencyCodesTried ==
    SUPPORTED_CURRENCIES
        \cup {<<"X", "Y", "Z">>, <<"U", "S">>, <<"U", "S", "D", "X">>,
              <<"U", " ", "D">>, <<"U", "S", "1">>, <<>>}

ToLowerChar(c) ==
    IF c \in Range(UpperCase)
    THEN LowerCase[CHOOSE i \in 1..Len(UpperCase) : UpperCase[i] = c]
    ELSE c

Cased(s, how) ==
    [i \in 1..Len(s) |->
         IF how = "lower" \/ (how = "mixed" /\ i % 2 = 0)
         THEN ToLowerChar(s[i])
         ELSE s[i]]

Blanks == {<<>>, <<" ">>, <<"\t", " ">>}

CurrencyInputs ==
    {pre \o Cased(c, how) \o post :
         c \in CurrencyCodesTried, how \in {"upper", "lower", "mixed"},
         pre \in Blanks, post \in Blanks}

CallCurrencyCreate ==
    /\ \E code \in CurrencyInputs :
           LET res == CurrencyCreate(code)
           IN  outcome' = [op |-> "Currency.create", amount |-> Cents(0),
                           code |-> code, ok |-> res.ok, err |-> res.err,
                           val |-> [amount |-> Cents(0), currency |-> res.val],
                           holds |-> FALSE]
    /\ UNCHANGED <<thisMoney, otherMoney, orderVars, raceVars>>

\* No order, and any two Money values
MoneyInit ==
    /\ id = NoOrderId
    /\ customerId = NoCustomerId
    /\ currency = NoCurrency
    /\ items = <<>>
    /\ domainEvents = <<>>
    /\ last = Call("", NoError, NoMoney, <<>>)
    /\ created = [id |-> NoOrderId, customerId |-> NoCustomerId,
                  currency |-> NoCurrency]
    /\ toFill = 0
    /\ freeAdds = 0
    /\ cleared = FALSE
    /\ stored = FALSE
    /\ response = NoResponse
    /\ thisMoney \in MoneyValues
    /\ otherMoney \in MoneyValues
    /\ outcome = NoOutcome
    /\ held = NoHeld
    /\ executions = NoExecutions
    /\ orders = NoOrders

MoneyNext ==
    \/ CallCreate
    \/ CallAdd
    \/ CallSubtract
    \/ CallSubtractFromSum
    \/ CallMultiply
    \/ CallIsGreaterThan
    \/ CallIsLessThan

MoneySpec == MoneyInit /\ [][MoneyNext]_vars

\* Currency on its own: no order and no Money, and Currency.create called
\* with one string after another
CurrencyInit ==
    /\ id = NoOrderId
    /\ customerId = NoCustomerId
    /\ currency = NoCurrency
    /\ items = <<>>
    /\ domainEvents = <<>>
    /\ last = Call("", NoError, NoMoney, <<>>)
    /\ created = [id |-> NoOrderId, customerId |-> NoCustomerId,
                  currency |-> NoCurrency]
    /\ toFill = 0
    /\ freeAdds = 0
    /\ cleared = FALSE
    /\ stored = FALSE
    /\ response = NoResponse
    /\ thisMoney = NoMoney
    /\ otherMoney = NoMoney
    /\ outcome = NoOutcome
    /\ held = NoHeld
    /\ executions = NoExecutions
    /\ orders = NoOrders

CurrencyNext == CallCurrencyCreate

CurrencySpec == CurrencyInit /\ [][CurrencyNext]_vars

(***************************************************************************)
(* Two CreateOrderUseCase.execute calls side by side on one repository and *)
(* one event bus.  A call runs from one await to the next without          *)
(* interruption; at each await the other call may run.  The in-memory      *)
(* repository does its work when the port is called.                       *)
(***************************************************************************)
RaceInputs ==
    [orderId : {ExampleOrderId, OtherOrderId}, customerId : RawCustomerIds,
     currency : InputCurrencies]

\* this.orders.has(id.value)
OrdersHas(orderId) == orderId.value \in DOMAIN orders

\* this.orders.set(order.id.value, order) with the Order object of call c
OrdersSet(orderId, c) ==
    [key \in DOMAIN orders \cup {orderId.value} |->
        IF key = orderId.value THEN c ELSE orders[key]]

\* return result
Resolved(c, result) ==
    [executions EXCEPT ![c].pc = "done", ![c].result = <<result>>]

\* Lines 33-56: the value objects, then the call of orderRepository.exists
ExecuteToExists(c) ==
    /\ executions[c].pc = "idle"
    /\ \E input \in RaceInputs :
           LET orderIdResult == OrderIdCreate(input.orderId)
               customerIdResult == CustomerIdCreate(input.customerId)
               currencyResult == CurrencyCreate(input.currency)
               begun == [executions EXCEPT ![c].input = input]
               failed(err, field) ==
                   [begun EXCEPT ![c].pc = "done",
                                 ![c].result = <<Fail(ValidationError(err, field))>>]
           IN  executions' =
                   IF ~orderIdResult.ok
                   THEN failed(orderIdResult.err, "orderId")
                   ELSE IF ~customerIdResult.ok
                   THEN failed(customerIdResult.err, "customerId")
                   ELSE IF ~currencyResult.ok
                   THEN failed(currencyResult.err, "currency")
                   ELSE [begun EXCEPT ![c].pc = "exists",
                                      ![c].exists = OrdersHas(orderIdResult.val)]
    /\ UNCHANGED <<orders, orderVars, moneyVars>>

\* Lines 57-71: the conflict, or Order.create and the call of save
ExecuteToSave(c) ==
    /\ executions[c].pc = "exists"
    /\ LET input == executions[c].input
           orderId == OrderIdCreate(input.orderId).val
           order == OrderCreate(orderId, CustomerIdCreate(input.customerId).val,
                                CurrencyCreate(input.currency).val)
       IN  IF executions[c].exists
           THEN /\ executions' =
                       Resolved(c, Fail(ConflictError("OrderAlreadyExists",
                                                      "DUPLICATE_ORDER")))
                /\ UNCHANGED orders
           ELSE /\ executions' = [executions EXCEPT ![c].pc = "save",
                                                    ![c].order = <<order>>]
                /\ orders' = OrdersSet(orderId, c)
    /\ UNCHANGED <<orderVars, moneyVars>>

\* Lines 74-76: getDomainEvents and the call of eventBus.publish
ExecuteToPublish(c) ==
    /\ executions[c].pc = "save"
    /\ LET events == executions[c].order[1].domainEvents
       IN  executions' =
               IF Len(events) > 0
               THEN [executions EXCEPT ![c].pc = "publish", ![c].published = events]
               ELSE [executions EXCEPT ![c].pc = "return"]
    /\ UNCHANGED <<orders, orderVars, moneyVars>>

\* Lines 77-86: clearDomainEvents and the successful Result
ExecuteToReturn(c) ==
    /\ executions[c].pc \in {"publish", "return"}
    /\ LET order == executions[c].order[1]
       IN  executions' =
               [executions EXCEPT
                   ![c].pc = "done",
                   ![c].order = <<[order EXCEPT !.domainEvents = <<>>]>>,
                   ![c].result = <<Ok([orderId |-> order.id.value,
                                       customerId |-> order.customerId.value,
                                       currency |-> order.currency.code])>>]
    /\ UNCHANGED <<orders, orderVars, moneyVars>>

\* An empty repository; nothing else of the program runs
RaceInit == UseCaseInit /\ toFill = 0

RaceNext ==
    \E c \in Callers :
        \/ ExecuteToExists(c)
        \/ ExecuteToSave(c)
        \/ ExecuteToPublish(c)
        \/ ExecuteToReturn(c)

RaceSpec == RaceInit /\ [][RaceNext]_vars

(***************************************************************************)
(* Properties                                                              *)
(***************************************************************************)
\* The arguments an addItem call can be given in the current state
CallSkus == Skus \cup {FillerSku(Len(items) + 1)}

CallMoneys == Moneys \cup {FillerPrice}

CallQuantities == Quantities \cup {FillerQuantity}

\* The raw codes Sku.create accepts
AcceptedRawSkus == {r \in RawSkus : SkuCreate(r).ok}

\* trim and upper-case, the normal form of a SKU code
NormalForm(code) == ToUpperCase(Trim(code))

\* Amounts without rounding: hi * 2^1010 + lo / 100, both parts kept
ExactMul(a, f) == [hi |-> a.hi * f, lo |-> a.lo * f]

\* The exact sum of the line totals of the items from..to
RECURSIVE ExactSum(_, _, _)
ExactSum(its, from, to) ==
    IF from > to THEN [hi |-> 0, lo |-> 0]
    ELSE IF from = to
    THEN ExactMul(its[from].unitPrice.amount, its[from].quantity.value)
    ELSE LET mid == (from + to) \div 2
             left == ExactSum(its, from, mid)
             right == ExactSum(its, mid + 1, to)
         IN  [hi |-> left.hi + right.hi, lo |-> left.lo + right.lo]

IsExactly(num, exact) ==
    /\ ~num.inf
    /\ IF exact.hi > 0
       THEN num.hi = exact.hi /\ exact.lo = 0
       ELSE num.hi = 0 /\ num.lo = exact.lo

\* C1: in every reachable state no two items of the order have the same
\* normalized SKU code.
C1_NoDuplicateSku ==
    Cardinality({NormalForm(items[i].sku.code) : i \in 1..Len(items)}) = Len(items)

\* A duplicate was offered and rejected, with several items in the order
C1_Witness ==
    /\ last.op = "addItem"
    /\ last.err = "DuplicateSku"
    /\ Len(items) >= 2

\* C2: in every reachable state the currency of every item's unit price is
\* the order's currency, which is the currency Order.create was given.
C2_ItemsInOrderCurrency ==
    /\ currency = created.currency
    /\ \A i \in 1..Len(items) :
           CurrencyEquals(items[i].unitPrice.currency, currency)

\* A price in another currency was offered to an order holding items
C2_Witness ==
    /\ last.op = "addItem"
    /\ last.err = "CurrencyMismatch"
    /\ Len(items) >= 1

\* C3: in every reachable state itemCount is at most 100.
C3_ItemLimit == ItemCount <= MAX_ITEMS

\* A further item was offered to an order holding 100 items
C3_Witness ==
    /\ last.op = "addItem"
    /\ last.err = "ItemLimitExceeded"
    /\ ItemCount = MAX_ITEMS

\* C4: for every reachable order with at least one item, calculateTotal()
\* returns an amount in the order's currency equal to the exact sum over
\* all items of unit price times quantity.
C4_TotalIsExactSum ==
    (last.op = "calculateTotal" /\ Len(items) >= 1) =>
        /\ last.err = NoError
        /\ CurrencyEquals(last.money.currency, currency)
        /\ IsExactly(last.money.amount, ExactSum(items, 1, Len(items)))

\* C5: whenever addItem raises an error, the item list and the pending
\* events are as they were before the call.
C5_AddItemAllOrNothing ==
    [][(last'.op = "addItem" /\ last'.err # NoError) =>
           (items' = items /\ domainEvents' = domainEvents)]_vars

\* C6: on an order that holds 100 items, addItem with a unit price in the
\* order's currency fails with the item-limit error for every SKU, also
\* for a SKU that is already in the order.
C6_LimitErrorOnFullOrder ==
    Len(items) = MAX_ITEMS =>
        \A sku \in CallSkus, unitPrice \in CallMoneys, quantity \in CallQuantities :
            CurrencyEquals(unitPrice.currency, currency) =>
                AddItemOutcome(sku, unitPrice, quantity).err = "ItemLimitExceeded"

\* The limit error was raised on a full order which holds one of the SKUs
\* a call can name
C6_Witness ==
    /\ last.op = "addItem"
    /\ last.err = "ItemLimitExceeded"
    /\ Len(items) = MAX_ITEMS
    /\ \E sku \in Skus : \E i \in 1..Len(items) : SkuEquals(items[i].sku, sku)

\* C7: addItem with a unit price in another currency than the order's fails
\* with the currency-mismatch error, whatever the item count and whether or
\* not the SKU is in the order, and leaves itemCount unchanged.
C7_CurrencyMismatchAlways ==
    \A sku \in CallSkus, unitPrice \in CallMoneys, quantity \in CallQuantities :
        ~CurrencyEquals(unitPrice.currency, currency) =>
            LET out == AddItemOutcome(sku, unitPrice, quantity)
            IN  out.err = "CurrencyMismatch" /\ Len(out.items) = ItemCount

\* The mismatch was raised on a full order
C7_Witness ==
    /\ last.op = "addItem"
    /\ last.err = "CurrencyMismatch"
    /\ Len(items) = MAX_ITEMS

\* C8: on an order with fewer than 100 items, addItem with a matching
\* currency and a SKU whose trimmed, upper-cased code is that of an item of
\* the order fails with the duplicate-SKU error, whatever the unit price and
\* the quantity.
C8_DuplicateSkuRejected ==
    Len(items) < MAX_ITEMS =>
        \A raw \in AcceptedRawSkus :
            (\E i \in 1..Len(items) :
                 NormalForm(items[i].sku.code) = NormalForm(raw))
            => \A unitPrice \in CallMoneys, quantity \in CallQuantities :
                   CurrencyEquals(unitPrice.currency, currency) =>
                       AddItemOutcome(SkuCreate(raw).val, unitPrice, quantity).err
                           = "DuplicateSku"

\* The duplicate error was raised below the limit
C8_Witness ==
    /\ last.op = "addItem"
    /\ last.err = "DuplicateSku"
    /\ Len(items) < MAX_ITEMS

\* C9: a successful addItem increases itemCount by one, appends the new item
\* after the earlier ones, which stay as they are, and appends one
\* ItemAddedToOrder event that carries the SKU, the unit price, the quantity
\* and an item total equal to unit price times quantity.
C9_SuccessfulAddItem ==
    [][\A sku \in CallSkus, unitPrice \in CallMoneys, quantity \in CallQuantities :
           (AddItemCall(sku, unitPrice, quantity) /\ last'.err = NoError) =>
               /\ Len(items') = Len(items) + 1
               /\ items' = Append(items, OrderItemCreate(sku, unitPrice, quantity))
               /\ Len(domainEvents') = Len(domainEvents) + 1
               /\ SubSeq(domainEvents', 1, Len(domainEvents)) = domainEvents
               /\ LET event == domainEvents'[Len(domainEvents')]
                  IN  /\ event.eventName = "ItemAddedToOrder"
                      /\ event.sku = sku
                      /\ event.unitPrice = unitPrice
                      /\ event.quantity = quantity
                      /\ CurrencyEquals(event.itemTotal.currency, unitPrice.currency)
                      /\ IsExactly(event.itemTotal.amount,
                                   ExactMul(unitPrice.amount, quantity.value))]_vars

\* C10: right after Order.create(id, customerId, currency) the order is
\* empty, itemCount is 0 and the only pending event is an OrderCreated with
\* that id, customer id and currency.
C10_AfterCreate ==
    last.op = "create" =>
        /\ IsEmpty
        /\ ItemCount = 0
        /\ domainEvents =
               <<OrderCreated(created.id, created.customerId, created.currency)>>
        /\ id = created.id /\ customerId = created.customerId

\* An order just created in EUR
C10_Witness ==
    /\ last.op = "create"
    /\ created.currency.code = <<"E", "U", "R">>
    /\ currency.code = <<"E", "U", "R">>

\* C11: calculateTotal() on an order with no items returns the zero amount in
\* the order's currency and leaves the pending events as they are, whenever
\* and however often it is called.
C11_EmptyTotal ==
    [][(last'.op = "calculateTotal" /\ IsEmpty) =>
           /\ last'.err = NoError
           /\ last'.money = MoneyZero(currency)
           /\ domainEvents' = domainEvents]_vars

\* calculateTotal has returned on an order without items, OrderCreated pending
C11_Witness ==
    /\ last.op = "calculateTotal"
    /\ IsEmpty
    /\ last.money = MoneyZero(currency)
    /\ Len(domainEvents) = 1

\* C12: every calculateTotal() call on an order with at least one item
\* returns a total and appends exactly one OrderTotalCalculated event, which
\* carries the returned total and the current number of items.
C12_TotalEventAppended ==
    [][(last'.op = "calculateTotal" /\ ~IsEmpty) =>
           /\ last'.err = NoError
           /\ domainEvents' =
                  Append(domainEvents,
                         OrderTotalCalculated(id, last'.money, Len(items)))]_vars

\* C13: the result of calculateTotal() is the same before and after every
\* step that is not a successful addItem (a rejected addItem, calculateTotal,
\* getTotalByCurrency, getDomainEvents, clearDomainEvents), so that two calls
\* with no successful addItem between them return equal amounts in the same
\* currency.
C13_TotalIdempotent ==
    [][~(last'.op = "addItem" /\ last'.err = NoError) =>
           /\ CalculateTotalOutcome'.err = CalculateTotalOutcome.err
           /\ CalculateTotalOutcome'.total = CalculateTotalOutcome.total]_vars

\* C14: only a successful addItem changes the items (and itemCount), and no
\* step changes the order's id, customer id or currency.
C14_ItemsChangedOnlyByAddItem ==
    [][/\ (items' # items => (last'.op = "addItem" /\ last'.err = NoError))
       /\ (Len(items') # Len(items) =>
               (last'.op = "addItem" /\ last'.err = NoError))
       /\ id' = id
       /\ customerId' = customerId
       /\ currency' = currency]_vars

\* C15: getDomainEvents() returns the pending events and leaves them pending;
\* called right after another getDomainEvents() it returns the same list, and
\* called right after clearDomainEvents() it returns an empty list.
C15_GetDomainEventsIdempotent ==
    [][last'.op = "getDomainEvents" =>
           /\ domainEvents' = domainEvents
           /\ last'.snapshot = domainEvents
           /\ (last.op = "getDomainEvents" => last'.snapshot = last.snapshot)
           /\ (last.op = "clearDomainEvents" => last'.snapshot = <<>>)]_vars

\* getDomainEvents has returned an empty list on an order that has items
C15_Witness ==
    /\ last.op = "getDomainEvents"
    /\ last.snapshot = <<>>
    /\ cleared
    /\ ~IsEmpty

\* C16: the order starts Empty, becomes NonEmpty on a successful addItem and
\* on no other step, never becomes Empty again, and itemCount never
\* decreases.
C16_ForwardOnly ==
    /\ IsEmpty
    /\ [][/\ Len(items') >= Len(items)
          /\ (~IsEmpty => ~IsEmpty')
          /\ ((last'.op = "addItem" /\ last'.err = NoError) => ~IsEmpty')
          /\ ((IsEmpty /\ ~IsEmpty') =>
                  (last'.op = "addItem" /\ last'.err = NoError))]_vars

\* C17: as long as clearDomainEvents has not been called the first pending
\* event is the OrderCreated of the order, and a successful addItem or a
\* calculateTotal that returns on a non-empty order places its event after
\* all the events already pending, which stay as they are.
C17_EventsInOrder ==
    /\ [](~cleared =>
              /\ domainEvents # <<>>
              /\ domainEvents[1] =
                     OrderCreated(created.id, created.customerId, created.currency))
    /\ [][/\ (last'.op = "addItem" /\ last'.err = NoError) =>
                 /\ Len(domainEvents') = Len(domainEvents) + 1
                 /\ SubSeq(domainEvents', 1, Len(domainEvents)) = domainEvents
                 /\ domainEvents'[Len(domainEvents')].eventName
                        = "ItemAddedToOrder"
          /\ (/\ last'.op \in {"calculateTotal", "getTotalByCurrency"}
              /\ last'.err = NoError
              /\ ~IsEmpty) =>
                 /\ Len(domainEvents') = Len(domainEvents) + 1
                 /\ SubSeq(domainEvents', 1, Len(domainEvents)) = domainEvents
                 /\ domainEvents'[Len(domainEvents')].eventName
                        = "OrderTotalCalculated"]_vars

\* OrderCreated, then ItemAddedToOrder, then OrderTotalCalculated are pending
C17_Witness ==
    /\ ~cleared
    /\ Len(domainEvents) >= 3
    /\ domainEvents[1].eventName = "OrderCreated"
    /\ domainEvents[2].eventName = "ItemAddedToOrder"
    /\ domainEvents[Len(domainEvents)].eventName = "OrderTotalCalculated"

\* The last execution ended in the catch block because eventBus.publish threw
PublishFailed(resp) ==
    /\ ~resp.success
    /\ resp.error.type = "InfraError"
    /\ resp.calls # <<>>
    /\ resp.calls[Len(resp.calls)] = "publish"
    /\ resp.published = <<>>

\* The inputs with which the caller repeats the last execution: they give the
\* value objects of the order created, or of the item added last
RetryInputs ==
    IF response.useCase = "CreateOrder"
    THEN {input \in CreateOrderInputs :
              /\ OrderIdCreate(input.orderId).ok
              /\ OrderIdCreate(input.orderId).val = id
              /\ CustomerIdCreate(input.customerId).ok
              /\ CustomerIdCreate(input.customerId).val = customerId
              /\ CurrencyCreate(input.currency).ok
              /\ CurrencyCreate(input.currency).val = currency}
    ELSE {input \in AddItemToOrderInputs :
              /\ OrderIdCreate(input.orderId).ok
              /\ OrderIdCreate(input.orderId).val = id
              /\ SkuCreate(input.sku).ok
              /\ SkuCreate(input.sku).val = items[Len(items)].sku
              /\ QuantityCreate(input.qty).ok
              /\ QuantityCreate(input.qty).val = items[Len(items)].quantity
              /\ CurrencyCreate(input.currency).ok
              /\ CurrencyCreate(input.currency).val = currency}

RetryExecute(input) ==
    IF response.useCase = "CreateOrder"
    THEN CreateOrderExecute(input, "none")
    ELSE AddItemToOrderExecute(input, "none")

\* C18: in both use cases an event leaves the order's pending events only in
\* an execution whose eventBus.publish call has accepted it, and the events
\* accepted are no longer pending afterwards; when publish throws, the events
\* pending before stay pending, in place, and nothing is published; and when
\* the caller then repeats the execution with the same input, the events
\* still pending are passed to publish and accepted (at-least-once).
C18_ClearedOnlyAfterPublish ==
    /\ [][/\ \A i \in 1..Len(domainEvents) :
                 domainEvents[i] \in Range(domainEvents')
                                         \cup Range(response'.published)
          /\ \A i \in 1..Len(response'.published) :
                 response'.published[i] \notin Range(domainEvents')
          /\ PublishFailed(response') =>
                 /\ domainEvents' # <<>>
                 /\ Len(domainEvents') >= Len(domainEvents)
                 /\ SubSeq(domainEvents', 1, Len(domainEvents)) = domainEvents]_vars
    /\ [](PublishFailed(response) =>
              \A input \in RetryInputs :
                  \A i \in 1..Len(domainEvents) :
                      domainEvents[i] \in Range(RetryExecute(input).published))

\* The execution is rejected as a duplicate and the stored order is untouched
DuplicateOrderRejected(out) ==
    /\ ~out.result.success
    /\ out.result.error.type = "ConflictError"
    /\ out.result.error.code = "DUPLICATE_ORDER"
    /\ out.stored
    /\ out.order = ThisOrder
    /\ "save" \notin Range(out.calls)

\* C19, as stated: CreateOrderUseCase.execute with an orderId for which the
\* repository holds an order, whatever the other inputs, returns a failure
\* carrying a ConflictError with code 'DUPLICATE_ORDER' and leaves the stored
\* order as it is.
C19_AsStated ==
    stored =>
        \A input \in CreateOrderInputs :
            (/\ OrderIdCreate(input.orderId).ok
             /\ OrderIdCreate(input.orderId).val.value = id.value)
            => DuplicateOrderRejected(CreateOrderExecute(input, "none"))

\* C19, amended: CreateOrderUseCase.execute with a valid customerId, a
\* supported currency and an orderId for which the repository holds an order
\* returns, unless orderRepository.exists throws, a failure carrying a
\* ConflictError with code 'DUPLICATE_ORDER'; the stored order, its items and
\* its pending events are neither replaced nor modified.
C19_DuplicateOrderRejected ==
    stored =>
        \A input \in CreateOrderInputs, fault \in CreateOrderFaults \ {"exists"} :
            (/\ OrderIdCreate(input.orderId).ok
             /\ OrderIdCreate(input.orderId).val.value = id.value
             /\ CustomerIdCreate(input.customerId).ok
             /\ CurrencyCreate(input.currency).ok)
            => DuplicateOrderRejected(CreateOrderExecute(input, fault))

\* A second creation was refused while the stored order had items and
\* pending events
C19_Witness ==
    /\ response.useCase = "CreateOrder"
    /\ response.error.code = "DUPLICATE_ORDER"
    /\ stored
    /\ Len(items) >= 1
    /\ domainEvents # <<>>

\* C20: AddItemToOrderUseCase.execute with valid inputs, for a stored order
\* whose currency differs from the input currency, returns a failure carrying
\* a ConflictError with code 'CURRENCY_MISMATCH'.
C20_CurrencyMismatchConflict ==
    stored =>
        \A input \in AddItemToOrderInputs :
            (/\ OrderIdCreate(input.orderId).ok
             /\ OrderIdCreate(input.orderId).val.value = id.value
             /\ SkuCreate(input.sku).ok
             /\ QuantityCreate(input.qty).ok
             /\ CurrencyCreate(input.currency).ok
             /\ ~CurrencyEquals(CurrencyCreate(input.currency).val, currency))
            => LET out == AddItemToOrderExecute(input, "none")
               IN  /\ ~out.result.success
                   /\ out.result.error.type = "ConflictError"
                   /\ out.result.error.code = "CURRENCY_MISMATCH"

\* C21: after 100 items have been added to an order through
\* AddItemToOrderUseCase, a further execute for a new SKU that the catalogue
\* prices returns a failure carrying a ConflictError with code
\* 'MAX_ITEMS_EXCEEDED', and the order still holds 100 items.
C21_MaxItemsExceeded ==
    (stored /\ Len(items) = MAX_ITEMS) =>
        \A input \in AddItemToOrderInputs :
            (/\ OrderIdCreate(input.orderId).ok
             /\ OrderIdCreate(input.orderId).val.value = id.value
             /\ SkuCreate(input.sku).ok
             /\ QuantityCreate(input.qty).ok
             /\ CurrencyCreate(input.currency).ok
             /\ CurrencyEquals(CurrencyCreate(input.currency).val, currency)
             /\ PricingServiceGetPrice(SkuCreate(input.sku).val, currency).ok
             /\ \A i \in 1..Len(items) :
                    ~SkuEquals(items[i].sku, SkuCreate(input.sku).val))
            => LET out == AddItemToOrderExecute(input, "none")
               IN  /\ ~out.result.success
                   /\ out.result.error.type = "ConflictError"
                   /\ out.result.error.code = "MAX_ITEMS_EXCEEDED"
                   /\ Len(out.order.items) = MAX_ITEMS


\* message.includes(words)
Includes(message, words) ==
    \E i \in 1..(Len(message) - Len(words) + 1) :
        SubSeq(message, i, i + Len(words) - 1) = words

\* The input is well formed, names the stored order and its currency, and its
\* SKU is priced and already among the order's items
DuplicateSkuInput(input) ==
    /\ OrderIdCreate(input.orderId).ok
    /\ OrderIdCreate(input.orderId).val.value = id.value
    /\ SkuCreate(input.sku).ok
    /\ QuantityCreate(input.qty).ok
    /\ CurrencyCreate(input.currency).ok
    /\ CurrencyEquals(CurrencyCreate(input.currency).val, currency)
    /\ PricingServiceGetPrice(SkuCreate(input.sku).val, currency).ok
    /\ \E i \in 1..Len(items) : SkuEquals(items[i].sku, SkuCreate(input.sku).val)

DuplicateSkuRejected(out) ==
    /\ ~out.result.success
    /\ out.result.error.type = "ConflictError"
    /\ out.result.error.code = "BUSINESS_RULE_VIOLATION"
    /\ Includes(out.result.error.message, <<"already", "exists">>)
    /\ out.calls = <<"findById", "getPrice">>
    /\ out.published = <<>>
    /\ out.order.items = items
    /\ out.order.domainEvents = domainEvents

OrderNotFound(out) ==
    /\ ~out.result.success
    /\ out.result.error.type = "NotFoundError"
    /\ out.result.error.resourceType = "Order"
    /\ out.calls = <<"findById">>
    /\ out.published = <<>>
    /\ out.order = ThisOrder
    /\ out.stored = stored

\* C23 as stated: AddItemToOrderUseCase.execute with a well-formed orderId
\* for which the repository holds no order returns a failure carrying a
\* NotFoundError with resourceType 'Order', without consulting the pricing
\* service, saving anything or publishing any event.
C23_AsStated ==
    \A input \in AddItemToOrderInputs :
        (/\ OrderIdCreate(input.orderId).ok
         /\ ~(stored /\ OrderIdCreate(input.orderId).val.value = id.value))
        => OrderNotFound(AddItemToOrderExecute(input, "none"))

\* C23 (amended): the same when sku, qty and currency are valid too and
\* findById itself does not throw, whatever the later port calls would do.
C23_OrderNotFound ==
    \A input \in AddItemToOrderInputs,
       fault \in AddItemToOrderFaults \ {"findById"} :
        (/\ OrderIdCreate(input.orderId).ok
         /\ ~(stored /\ OrderIdCreate(input.orderId).val.value = id.value)
         /\ SkuCreate(input.sku).ok
         /\ QuantityCreate(input.qty).ok
         /\ CurrencyCreate(input.currency).ok)
        => OrderNotFound(AddItemToOrderExecute(input, fault))

\* The repository holds an order with items, and an execute for another
\* order id was just answered with NotFoundError
C23_Witness ==
    /\ response.useCase = "AddItemToOrder"
    /\ response.error.type = "NotFoundError"
    /\ response.error.resourceType = "Order"
    /\ response.calls = <<"findById">>
    /\ stored
    /\ Len(items) >= 1


\* The input is well formed and names the stored order, and the pricing
\* service has no price for its SKU in the requested currency
UnpricedSkuInput(input) ==
    /\ OrderIdCreate(input.orderId).ok
    /\ OrderIdCreate(input.orderId).val.value = id.value
    /\ SkuCreate(input.sku).ok
    /\ QuantityCreate(input.qty).ok
    /\ CurrencyCreate(input.currency).ok
    /\ ~PricingServiceGetPrice(SkuCreate(input.sku).val,
                               CurrencyCreate(input.currency).val).ok

PriceNotFound(out) ==
    /\ ~out.result.success
    /\ out.result.error.type = "NotFoundError"
    /\ out.result.error.resourceType \in {"Product", "Price"}
    /\ out.order.items = items
    /\ out.order.domainEvents = domainEvents

CataloguePrice(sku, cur) ==
    (CHOOSE p \in Catalogue : p.sku = sku.code /\ p.currency = cur.code).price

\* C25: a successful AddItemToOrderUseCase.execute returns the order id and a
\* total whose currency is the order's currency and whose amount is the sum,
\* over all items in the order after the addition (including items added by
\* earlier calls), of catalogue unit price multiplied by quantity.
C25_TotalIsSum ==
    stored =>
        \A input \in AddItemToOrderInputs :
            LET out == AddItemToOrderExecute(input, "none")
                its == out.order.items
            IN  out.result.success
                => /\ out.result.data.orderId = id.value
                   /\ out.result.data.total.currency = currency.code
                   /\ Len(its) = Len(items) + 1
                   /\ \A i \in 1..Len(its) :
                          its[i].unitPrice.amount
                              = CataloguePrice(its[i].sku, currency)
                   /\ IsExactly(out.result.data.total.amount,
                                ExactSum(its, 1, Len(its)))


\* The first input that its value object refuses, in the order the use case
\* builds them; "" when all are accepted
FirstInvalidOfAddItem(input) ==
    IF ~OrderIdCreate(input.orderId).ok THEN "orderId"
    ELSE IF ~SkuCreate(input.sku).ok THEN "sku"
    ELSE IF ~QuantityCreate(input.qty).ok THEN "qty"
    ELSE IF ~CurrencyCreate(input.currency).ok THEN "currency"
    ELSE ""

FirstInvalidOfCreate(input) ==
    IF ~OrderIdCreate(input.orderId).ok THEN "orderId"
    ELSE IF ~CustomerIdCreate(input.customerId).ok THEN "customerId"
    ELSE IF ~CurrencyCreate(input.currency).ok THEN "currency"
    ELSE ""

RejectedBeforeRepository(out, field) ==
    /\ ~out.result.success
    /\ out.result.error.type = "ValidationError"
    /\ out.result.error.field = field
    /\ out.calls = <<>>
    /\ out.published = <<>>
    /\ out.order = ThisOrder
    /\ out.stored = stored

\* C26: both use cases validate their inputs before touching the repository:
\* the first invalid input, in the order orderId, sku, qty, currency for
\* AddItemToOrderUseCase and orderId, customerId, currency for
\* CreateOrderUseCase, yields a failure carrying a ValidationError whose field
\* names that input, and no order is looked up, saved or published.
C26_ValidatedFirst ==
    /\ \A input \in AddItemToOrderInputs, fault \in AddItemToOrderFaults :
           FirstInvalidOfAddItem(input) # ""
           => RejectedBeforeRepository(AddItemToOrderExecute(input, fault),
                                       FirstInvalidOfAddItem(input))
    /\ \A input \in CreateOrderInputs, fault \in CreateOrderFaults :
           FirstInvalidOfCreate(input) # ""
           => RejectedBeforeRepository(CreateOrderExecute(input, fault),
                                       FirstInvalidOfCreate(input))

\* A stored order with items and pending events, and an execute just refused
\* for its quantity without any port call
C26_Witness ==
    /\ response.useCase = "AddItemToOrder"
    /\ response.error.type = "ValidationError"
    /\ response.error.field = "qty"
    /\ response.calls = <<>>
    /\ stored
    /\ Len(items) >= 1
    /\ domainEvents # <<>>


\* C27: when a use case fails with a ConflictError, OrderController answers
\* with HTTP status 409 and an error body whose code is the conflict's own
\* code, so that creating an order whose id already exists yields code
\* 'DUPLICATE_ORDER'.
C27_ConflictReply ==
    /\ \A body \in CreateOrderInputs, fault \in CreateOrderFaults :
           LET out == CreateOrderExecute(body, fault)
               reply == OrderControllerCreateOrder(body, fault)
           IN  (~out.result.success /\ out.result.error.type = "ConflictError")
               => /\ reply.status = 409
                  /\ reply.body.error.code = out.result.error.code
                  /\ reply.body.error.code = "DUPLICATE_ORDER"
    /\ \A input \in AddItemToOrderInputs, fault \in AddItemToOrderFaults :
           LET out == AddItemToOrderExecute(input, fault)
               reply == OrderControllerAddItem([orderId |-> input.orderId],
                                               input, fault)
           IN  (~out.result.success /\ out.result.error.type = "ConflictError")
               => /\ reply.status = 409
                  /\ reply.body.error.code = out.result.error.code


\* C28: for all Money values a and b of the same currency,
\* a.add(b).subtract(b) succeeds and equals a (same amount and currency).
C28_AddSubtractRoundTrip ==
    /\ CurrencyEquals(thisMoney.currency, otherMoney.currency)
       => LET sum == MoneyAdd(thisMoney, otherMoney)
              back == MoneySubtract(sum.val, otherMoney)
          IN  sum.ok /\ back.ok /\ MoneyEquals(back.val, thisMoney)
    /\ outcome.op = "add.subtract"
       => outcome.ok /\ MoneyEquals(outcome.val, thisMoney)

\* C29: Money.add, subtract, isGreaterThan and isLessThan fail with a
\* currency-mismatch error whenever the two amounts have different
\* currencies, and subtract fails with a negative-result error whenever the
\* subtrahend exceeds the minuend; in every failing case no Money value is
\* produced and both operands are unchanged.
C29_MoneyFailures ==
    /\ [](/\ ~CurrencyEquals(thisMoney.currency, otherMoney.currency)
             => /\ MoneyAdd(thisMoney, otherMoney).err = "CurrencyMismatch"
                /\ MoneySubtract(thisMoney, otherMoney).err = "CurrencyMismatch"
                /\ MoneyIsGreaterThan(thisMoney, otherMoney).err = "CurrencyMismatch"
                /\ MoneyIsLessThan(thisMoney, otherMoney).err = "CurrencyMismatch"
                /\ outcome.op \in {"add", "subtract", "isGreaterThan", "isLessThan"}
                   => ~outcome.ok /\ outcome.err = "CurrencyMismatch"
          /\ (/\ CurrencyEquals(thisMoney.currency, otherMoney.currency)
              /\ NumLess(thisMoney.amount, otherMoney.amount))
             => /\ MoneySubtract(thisMoney, otherMoney).err = "NegativeResult"
                /\ outcome.op = "subtract"
                   => ~outcome.ok /\ outcome.err = "NegativeResult")
    /\ [][(outcome'.op \in {"add", "subtract", "add.subtract", "isGreaterThan",
                            "isLessThan"} /\ ~outcome'.ok)
          => /\ outcome'.val = NoMoney
             /\ thisMoney' = thisMoney
             /\ otherMoney' = otherMoney]_vars

\* subtract has just thrown the negative-result error for two amounts of the
\* same currency
C29_Witness ==
    /\ outcome.op = "subtract"
    /\ outcome.err = "NegativeResult"
    /\ CurrencyEquals(thisMoney.currency, otherMoney.currency)
    /\ NumLess(thisMoney.amount, otherMoney.amount)

\* a rounded to 2 decimals, half away from zero, for a finite a >= 0
RoundedToTwoDecimals(a) == IF a.half THEN Cents(a.lo + 1) ELSE a

\* C30: for every finite amount a >= 0 and currency c, Money.create(a, c)
\* succeeds and its amount equals a rounded to 2 decimals (half away from
\* zero); for a negative or non-finite a it fails with an invalid-amount
\* error; the results of add, subtract and multiply are rounded by the same
\* rule.
C30_CreateRounds ==
    /\ \A a \in MoneyAmounts, c \in Currencies :
           IF NumberIsFinite(a) /\ ~NumLess(a, Cents(0))
           THEN /\ MoneyCreate(a, c).ok
                /\ MoneyCreate(a, c).val.amount = RoundedToTwoDecimals(a)
                /\ MoneyCreate(a, c).val.currency = c
           ELSE /\ ~MoneyCreate(a, c).ok
                /\ MoneyCreate(a, c).err \in {"AmountNotFinite", "AmountNegative"}
    /\ (outcome.op = "add" /\ outcome.ok)
       => outcome.val.amount
              = RoundedToTwoDecimals(NumAdd(thisMoney.amount, otherMoney.amount))
    /\ (outcome.op = "subtract" /\ outcome.ok)
       => outcome.val.amount
              = RoundedToTwoDecimals(NumSub(thisMoney.amount, otherMoney.amount))
    /\ (outcome.op = "multiply" /\ outcome.ok)
       => outcome.val.amount
              = RoundedToTwoDecimals(NumMul(thisMoney.amount, outcome.amount.lo))


C32_Snapshots ==
    [][/\ (held.kind # "none"
           /\ last'.op \in {"addItem", "calculateTotal", "clearDomainEvents"})
          => HeldArray' = HeldArray
       /\ last'.op \in {"length = 0", "pop"}
          => /\ items' = items
             /\ domainEvents' = domainEvents
             /\ HeldArray' = HeldArray]_vars

\* The caller still holds the events it was handed before the queue was
\* cleared, and its write to that array has just been refused
C32_Witness ==
    /\ held.kind = "events"
    /\ held.array # <<>>
    /\ cleared
    /\ domainEvents = <<>>
    /\ last.op = "length = 0"
    /\ last.err = "TypeError"
    /\ ~IsEmpty


\* The pending ItemAddedToOrder events, in queue order
ItemAddedEvents ==
    SelectSeq(domainEvents, LAMBDA event : event.eventName = "ItemAddedToOrder")

\* C33: as long as clearDomainEvents has never been called on an order, the
\* pending queue contains exactly itemCount ItemAddedToOrder events, and
\* their SKUs occur in the same order as the SKUs of items.
C33_EventPerItem ==
    ~cleared =>
        /\ Len(ItemAddedEvents) = ItemCount
        /\ \A i \in 1..ItemCount :
               i <= Len(ItemAddedEvents) => ItemAddedEvents[i].sku = items[i].sku


\* The ports of the repository and of the event bus
RepositoryAndBusPorts == {"exists", "findById", "save", "publish"}

\* The promise resolved to a Result
IsResult(result) == DOMAIN result = {"success", "data", "error"}

\* The execution resolved to a Result, and to a failure carrying an InfraError
\* when the repository or event bus port that throws was called
ResolvedThroughFault(out, fault) ==
    /\ IsResult(out.result)
    /\ (fault \in RepositoryAndBusPorts /\ fault \in Range(out.calls))
           => /\ ~out.result.success
              /\ out.result.error.type = "InfraError"

\* C34: CreateOrderUseCase.execute and AddItemToOrderUseCase.execute never
\* reject: whatever the repository, the pricing service or the event bus
\* throw at any step, the returned promise resolves to a Result, and a throw
\* by the repository or the event bus yields a failure Result carrying an
\* InfraError.
C34_NeverRejects ==
    /\ \A input \in CreateOrderInputs, fault \in CreateOrderFaults :
           ResolvedThroughFault(CreateOrderExecute(input, fault), fault)
    /\ \A input \in AddItemToOrderInputs, fault \in AddItemToOrderFaults :
           ResolvedThroughFault(AddItemToOrderExecute(input, fault), fault)

\* An addItem execution whose publish threw, after findById, getPrice and save
\* went through, has returned a failure with an InfraError
C34_Witness ==
    /\ response.useCase = "AddItemToOrder"
    /\ response.calls = <<"findById", "getPrice", "save", "publish">>
    /\ response.published = <<>>
    /\ ~response.success
    /\ response.error.type = "InfraError"
    /\ response.error.serviceName = "OrderRepository"


\* C35: whenever AddItemToOrderUseCase.execute returns a failure Result, of
\* any error type including InfraError from a failed save or publish, the
\* order held by the repository has exactly the items it had before the call.
C35_FailureKeepsItems ==
    [][(/\ stored
        /\ response'.useCase = "AddItemToOrder"
        /\ ~response'.success)
           => items' = items]_vars


\* C36: after a successful AddItemToOrderUseCase.execute, every domain event
\* that the call appended to the order has been passed to eventBus.publish
\* and the stored order's pending queue is empty.
C36_AllPublished ==
    (response.useCase = "AddItemToOrder" /\ response.success)
        => /\ domainEvents = <<>>
           /\ \A i \in 1..Len(domainEvents) :
                  \E j \in 1..Len(response.published) :
                      response.published[j] = domainEvents[i]


\* The call has returned a successful Result
Succeeded(c) ==
    /\ executions[c].pc = "done"
    /\ executions[c].result[1].success

\* Both calls were given the same valid orderId
SameValidOrderId ==
    /\ \A c \in Callers : executions[c].pc # "idle"
    /\ \A c \in Callers : OrderIdCreate(executions[c].input.orderId).ok
    /\ OrderIdCreate(executions[1].input.orderId).val
           = OrderIdCreate(executions[2].input.orderId).val

\* C37: for every interleaving of two CreateOrderUseCase.execute calls with
\* the same valid orderId, where each await on the repository or the event
\* bus is a point at which the other call may run, at most one call returns
\* success and the order saved by it is not replaced by the other call.
C37_OneCreateWins ==
    /\ [](SameValidOrderId => ~(Succeeded(1) /\ Succeeded(2)))
    /\ [][\A key \in DOMAIN orders : orders'[key] = orders[key]]_vars

=============================================================================
